---- MODULE Spec2Model ----
(***************************************************************************)
(* CourseFindr: the matching and scoring engine                            *)
(* (app/services/recommendation_engine.py, CourseRecommendationEngine)     *)
(* with the request/response schemas of app/schemas/recommendation.py.     *)
(*                                                                         *)
(* Representation.                                                         *)
(*  - A Python str is a sequence of one-character strings, so that         *)
(*    lower(), title(), `in` (substring) and the tokenizer are computed.   *)
(*  - None is NoneStr for an Optional[str] and NoneNum for an Optional     *)
(*    number; truthiness (`if x`) is Truthy / TruthyNum.                   *)
(*  - A sub-score is an integer number of tenths (10 is 1.0), a weight an  *)
(*    integer number of hundredths (100 is 1.0) and a total score an       *)
(*    integer number of 1/10000 (10000 is 1.0): the products of the code   *)
(*    are then exact integer products.                                     *)
(*  - QueryTermsTable, RuleScoresTable and FitTable hold the values of    *)
(*    pure functions of the code over the requests, courses and catalogs   *)
(*    of the model; `@@ << >>` makes each an explicit table, computed      *)
(*    once.                                                                *)
(***************************************************************************)
EXTENDS Integers, Sequences, FiniteSets, TLC

(***************************************************************************)
(* Strings                                                                 *)
(***************************************************************************)
UpperLetters ==
    <<"A","B","C","D","E","F","G","H","I","J","K","L","M",
      "N","O","P","Q","R","S","T","U","V","W","X","Y","Z">>

LowerLetters ==
    <<"a","b","c","d","e","f","g","h","i","j","k","l","m",
      "n","o","p","q","r","s","t","u","v","w","x","y","z">>

IsUpper(c) == \E i \in DOMAIN UpperLetters : UpperLetters[i] = c

IsLower(c) == \E i \in DOMAIN LowerLetters : LowerLetters[i] = c

\* \w of the token pattern, for the characters the model's strings use
IsWordChar(c) == IsUpper(c) \/ IsLower(c)

LowerChar(c) ==
    IF IsUpper(c)
    THEN LowerLetters[CHOOSE i \in DOMAIN UpperLetters : UpperLetters[i] = c]
    ELSE c

UpperChar(c) ==
    IF IsLower(c)
    THEN UpperLetters[CHOOSE i \in DOMAIN LowerLetters : LowerLetters[i] = c]
    ELSE c

\* str.lower()
Lower(s) == [i \in DOMAIN s |-> LowerChar(s[i])]

\* str.title(): a letter that follows a non-letter is upper-cased, any other lower-cased
Title(s) ==
    [i \in DOMAIN s |->
        IF i = 1 \/ ~IsWordChar(s[i - 1]) THEN UpperChar(s[i]) ELSE LowerChar(s[i])]

\* a in b (str.__contains__): a is a contiguous substring of b
Contains(b, a) ==
    \E k \in 0..(Len(b) - Len(a)) : \A i \in 1..Len(a) : b[k + i] = a[i]

\* the None of an Optional[str] field
NoneStr == <<"None">>

\* the None of an Optional[float] / Optional[int] field
NoneNum == 0 - 1

\* bool(s) of an Optional[str]
Truthy(s) == s # NoneStr /\ s # <<>>

\* bool(x) of an Optional number
TruthyNum(x) == x # NoneNum /\ x # 0

\* " ".join(parts)
Join(parts) ==
    LET joined[k \in 0..Len(parts)] ==
            IF k = 0 THEN << >>
            ELSE IF k = 1 THEN parts[1]
            ELSE joined[k - 1] \o <<" ">> \o parts[k]
    IN  joined[Len(parts)]

\* str.strip() for the blank the model's strings use
Strip(s) ==
    LET inked == {i \in DOMAIN s : s[i] # " "}
    IN  IF inked = {} THEN << >>
        ELSE SubSeq(s, CHOOSE i \in inked : \A j \in inked : i <= j,
                       CHOOSE i \in inked : \A j \in inked : j <= i)

\* the sum of a sequence of numbers
SumSeq(v) ==
    LET partial[k \in 0..Len(v)] == IF k = 0 THEN 0 ELSE partial[k - 1] + v[k]
    IN  partial[Len(v)]

\* the elements of a set of numbers in increasing order
SortedSeq(S) ==
    [k \in 1..Cardinality(S) |-> CHOOSE a \in S : Cardinality({b \in S : b < a}) = k - 1]

(***************************************************************************)
(* TfidfVectorizer(stop_words='english', max_features=1000,                *)
(* ngram_range=(1, 2), lowercase=True) and cosine_similarity.              *)
(* A term is a string; a document becomes the sequence of its terms.       *)
(* The idf ln((1 + n) / (1 + df)) + 1 is tabulated in tenths, and the      *)
(* cosine is rounded down to tenths. max_features is not reached by the    *)
(* catalogs of the model (their vocabularies stay far below 1000 terms).   *)
(***************************************************************************)
\* the words of sklearn's ENGLISH_STOP_WORDS that the model's strings use
StopWords ==
    { <<"t","h","e">>, <<"a","n","d">>, <<"o","f">>, <<"i","n">>, <<"t","o">> }

\* token_pattern (?u)\b\w\w+\b: the maximal runs of word characters that are
\* at least two characters long, from left to right
Runs(s) ==
    LET n == Len(s)
        starts == {a \in 1..n : IsWordChar(s[a]) /\ (a = 1 \/ ~IsWordChar(s[a - 1]))}
        EndOf(a) == CHOOSE b \in a..n :
                        /\ \A i \in a..b : IsWordChar(s[i])
                        /\ (b = n \/ ~IsWordChar(s[b + 1]))
        first == SortedSeq({a \in starts : EndOf(a) > a})
    IN  [k \in DOMAIN first |-> SubSeq(s, first[k], EndOf(first[k]))]

\* lowercase=True, then the token pattern, then stop_words='english'
Tokenize(s) == SelectSeq(Runs(Lower(s)), LAMBDA t : t \notin StopWords)

\* ngram_range=(1, 2): the tokens, then each pair of neighbouring tokens
Ngrams(tokens) ==
    IF Len(tokens) < 2 THEN tokens
    ELSE tokens \o [i \in 1..(Len(tokens) - 1) |-> tokens[i] \o <<" ">> \o tokens[i + 1]]

\* the analyzer of the vectorizer: text -> sequence of terms
Analyze(s) == Ngrams(Tokenize(s))

\* number of occurrences of term t in a sequence of terms
TermCount(terms, t) == Cardinality({i \in DOMAIN terms : terms[i] = t})

\* smooth idf, ln((1 + n) / (1 + df)) + 1, in tenths, for 1 <= df <= n <= 6
IdfTable ==
    << <<10>>,
       <<14, 10>>,
       <<17, 13, 10>>,
       <<19, 15, 12, 10>>,
       <<21, 17, 14, 12, 10>>,
       <<23, 18, 16, 13, 12, 10>> >>

\* the largest r in 0..10 with r * r * den <= 100 * num: sqrt(num / den) in tenths
SqrtTenths(num, den) ==
    CHOOSE r \in 0..10 :
        /\ r * r * den <= 100 * num
        /\ (r = 10 \/ (r + 1) * (r + 1) * den > 100 * num)

\* all the sequences of seqs, one after the other
Concat(seqs) ==
    LET all[k \in 0..Len(seqs)] == IF k = 0 THEN << >> ELSE all[k - 1] \o seqs[k]
    IN  all[Len(seqs)]

\* the distinct elements of a sequence, each at the place of its first occurrence
Distinct(terms) ==
    LET first == SortedSeq({i \in DOMAIN terms : \A j \in 1..(i - 1) : terms[j] # terms[i]})
    IN  [k \in DOMAIN first |-> terms[first[k]]]

\* TfidfVectorizer.fit_transform(docs): the vocabulary (one column per term),
\* the idf of each column and one row of tf * idf per document; "ValueError"
\* stands for the ValueError('empty vocabulary; ...') that sklearn raises
\* when no document holds a term
FitTransform(docs) ==
    LET termsOf == [i \in DOMAIN docs |-> Analyze(docs[i])]
        vocabulary == Distinct(Concat(termsOf))
        df == [c \in DOMAIN vocabulary |->
                 Cardinality({i \in DOMAIN docs : TermCount(termsOf[i], vocabulary[c]) > 0})]
        idf == [c \in DOMAIN vocabulary |-> IdfTable[Len(docs)][df[c]]]
    IN  IF DOMAIN vocabulary = {}
        THEN [raised |-> "ValueError", vocabulary |-> << >>, idf |-> << >>, matrix |-> << >>]
        ELSE [raised |-> "", vocabulary |-> vocabulary, idf |-> idf,
              matrix |-> [i \in DOMAIN docs |->
                            [c \in DOMAIN vocabulary |->
                                TermCount(termsOf[i], vocabulary[c]) * idf[c]]]]

\* TfidfVectorizer.transform([text]) on the terms of the text: terms outside
\* the vocabulary are ignored
Transform(vectorizer, terms) ==
    [c \in DOMAIN vectorizer.vocabulary |->
        TermCount(terms, vectorizer.vocabulary[c]) * vectorizer.idf[c]]

\* cosine_similarity(u, v)[0][0] in tenths; a zero vector gives 0
CosineSimilarity(u, v) ==
    LET dot == SumSeq([c \in DOMAIN u |-> u[c] * v[c]])
        uu == SumSeq([c \in DOMAIN u |-> u[c] * u[c]])
        vv == SumSeq([c \in DOMAIN v |-> v[c] * v[c]])
    IN  IF uu = 0 \/ vv = 0 THEN 0 ELSE SqrtTenths(dot * dot, uu * vv)

(***************************************************************************)
(* The catalog: rows of the courses table (app/models/course.py) with the  *)
(* columns and relationships the engine reads.                             *)
(***************************************************************************)
Skill(name) == [name |-> name]

CareerOutcome(title, description) == [title |-> title, description |-> description]

CourseAI ==
    [id |-> 1, name |-> <<"A","I"," ","L","a","b">>, description |-> <<"d","a","t","a"," ","a","n","d"," ","p","y","t","h","o","n">>,
     location_city |-> <<"B","e","r","l","i","n">>, location_country |-> <<"G","e","r","m","a","n","y">>,
     language_of_instruction |-> <<"E","n","g","l","i","s","h">>, modality |-> <<"i","n","-","p","e","r","s","o","n">>,
     duration_months |-> 12, tuition_fee |-> 20000, course_level |-> <<"g","r","a","d","u","a","t","e">>,
     entry_requirements |-> <<"B","S","c">>,
     skills |-> <<Skill(<<"P","y","t","h","o","n">>)>>,
     career_outcomes |-> <<CareerOutcome(<<"D","a","t","a"," ","S","c","i","e","n","t","i","s","t">>, NoneStr)>>]

CourseWeb ==
    [id |-> 2, name |-> <<"W","e","b"," ","D","e","v">>, description |-> NoneStr,
     location_city |-> <<"P","a","r","i","s">>, location_country |-> <<"F","r","a","n","c","e">>,
     language_of_instruction |-> <<"F","r","e","n","c","h">>, modality |-> <<"O","n","l","i","n","e">>,
     duration_months |-> NoneNum, tuition_fee |-> NoneNum, course_level |-> NoneStr,
     entry_requirements |-> NoneStr,
     skills |-> <<Skill(<<"J","S">>)>>,
     career_outcomes |-> << >>]

\* a course whose text holds no term: a one-letter name, nothing else
CourseC ==
    [id |-> 3, name |-> <<"C">>, description |-> NoneStr,
     location_city |-> NoneStr, location_country |-> NoneStr,
     language_of_instruction |-> <<"E","n","g","l","i","s","h">>, modality |-> <<"i","n","-","p","e","r","s","o","n">>,
     duration_months |-> NoneNum, tuition_fee |-> 0, course_level |-> NoneStr,
     entry_requirements |-> NoneStr,
     skills |-> << >>,
     career_outcomes |-> << >>]

CourseData ==
    [id |-> 4, name |-> <<"D","a","t","a">>, description |-> <<"p","y","t","h","o","n"," ","f","o","r"," ","d","a","t","a">>,
     location_city |-> <<"M","u","n","i","c","h">>, location_country |-> <<"G","e","r","m","a","n","y">>,
     language_of_instruction |-> <<"E","n","g","l","i","s","h">>, modality |-> <<"h","y","b","r","i","d">>,
     duration_months |-> 24, tuition_fee |-> 10000, course_level |-> <<"u","n","d","e","r","g","r","a","d","u","a","t","e">>,
     entry_requirements |-> NoneStr,
     skills |-> <<Skill(<<"P","y","t","h","o","n">>), Skill(<<"S","Q","L">>)>>,
     career_outcomes |-> <<CareerOutcome(<<"A","n","a","l","y","s","t">>, <<"d","a","t","a"," ","e","n","g","i","n","e","e","r">>)>>]

CoursePool == {CourseAI, CourseWeb, CourseC, CourseData}

\* the largest catalog of the model
MaxCourses == 2

\* the catalogs: the rows db.query(Course).all() returns, in the order it
\* returns them; a course (a primary key) is in a catalog at most once
Catalogs ==
    UNION {{c \in [1..n -> CoursePool] : \A i, j \in 1..n : i # j => c[i].id # c[j].id}
           : n \in 0..MaxCourses}

(***************************************************************************)
(* RecommendationRequest (app/schemas/recommendation.py). A weight is in   *)
(* hundredths. An Optional[List[str]] that is None is the empty list: the  *)
(* engine reads both through `or []` and `if`.                             *)
(***************************************************************************)
DefaultRequest ==
    [skills |-> << >>, interests |-> << >>, location |-> NoneStr, modality |-> NoneStr,
     language_of_instruction |-> <<"E","n","g","l","i","s","h">>, career_goals |-> NoneStr,
     max_tuition |-> NoneNum, course_level |-> NoneStr, max_duration_months |-> NoneNum,
     skill_weight |-> 40, interest_weight |-> 30, location_weight |-> 15,
     career_weight |-> 15]

\* ge=0.0, le=1.0 on each of the four weights
ValidWeight(w) == 0 <= w /\ w <= 100

\* weightings: all zero, the defaults, all one, location only
ZeroWeights == <<0, 0, 0, 0>>
DefaultWeights == <<40, 30, 15, 15>>
FullWeights == <<100, 100, 100, 100>>
LocationWeights == <<0, 0, 100, 0>>

WithWeights(r, w) ==
    [r EXCEPT !.skill_weight = w[1], !.interest_weight = w[2],
              !.location_weight = w[3], !.career_weight = w[4]]

\* the free-text part of a query
NoText == [skills |-> << >>, interests |-> << >>, career_goals |-> NoneStr]
PythonText == [skills |-> <<<<"P","y","t","h","o","n">>>>, interests |-> << >>, career_goals |-> NoneStr]
DataText == [skills |-> <<<<"s","q","l">>>>, interests |-> <<<<"D","a","t","a">>>>, career_goals |-> <<"d","a","t","a">>]

WithText(r, t) ==
    [r EXCEPT !.skills = t.skills, !.interests = t.interests, !.career_goals = t.career_goals]

\* the structured filters of a query
NoFilters ==
    [location |-> NoneStr, modality |-> NoneStr, language_of_instruction |-> NoneStr,
     max_tuition |-> NoneNum, course_level |-> NoneStr, max_duration_months |-> NoneNum]
EnglishFilter == [NoFilters EXCEPT !.language_of_instruction = <<"E","n","g","l","i","s","h">>]
BerlinOnlineFilter == [NoFilters EXCEPT !.location = <<"b","e","r","l","i","n">>, !.modality = <<"O","N","L","I","N","E">>]
GermanyTuitionFilter == [NoFilters EXCEPT !.location = <<"G","e","r","m","a","n","y">>, !.max_tuition = 15000]
InPersonFilter ==
    [location |-> NoneStr, modality |-> <<"I","n","-","P","e","r","s","o","n">>, language_of_instruction |-> <<"e","n","g","l","i","s","h">>,
     max_tuition |-> 0, course_level |-> <<"G","r","a","d","u","a","t","e">>, max_duration_months |-> 12]

WithFilters(r, f) ==
    [r EXCEPT !.location = f.location, !.modality = f.modality,
              !.language_of_instruction = f.language_of_instruction,
              !.max_tuition = f.max_tuition, !.course_level = f.course_level,
              !.max_duration_months = f.max_duration_months]

Query(w, t, f) == WithFilters(WithText(WithWeights(DefaultRequest, w), t), f)

\* the requests the model draws
Requests ==
    { Query(DefaultWeights, NoText, EnglishFilter),
      Query(DefaultWeights, PythonText, EnglishFilter),
      Query(DefaultWeights, DataText, EnglishFilter),
      Query(DefaultWeights, DataText, NoFilters),
      Query(DefaultWeights, DataText, BerlinOnlineFilter),
      Query(DefaultWeights, DataText, GermanyTuitionFilter),
      Query(DefaultWeights, DataText, InPersonFilter),
      Query(DefaultWeights, PythonText, BerlinOnlineFilter),
      Query(DefaultWeights, NoText, GermanyTuitionFilter),
      Query(ZeroWeights, NoText, NoFilters),
      Query(ZeroWeights, DataText, EnglishFilter),
      Query(ZeroWeights, PythonText, InPersonFilter),
      Query(FullWeights, DataText, NoFilters),
      Query(FullWeights, PythonText, EnglishFilter),
      Query(FullWeights, NoText, GermanyTuitionFilter),
      Query(LocationWeights, NoText, NoFilters),
      Query(LocationWeights, NoText, EnglishFilter),
      Query(LocationWeights, DataText, BerlinOnlineFilter) }

\* the limit argument: one candidate, the default of the endpoint
DefaultLimit == 20

Limits == {1, DefaultLimit}

(***************************************************************************)
(* Scoring: the sub-scores of one course against one request.              *)
(***************************************************************************)
\* _build_user_query
BuildUserQuery(request) ==
    Join([i \in DOMAIN request.skills |-> Lower(request.skills[i])]
         \o [i \in DOMAIN request.interests |-> Lower(request.interests[i])]
         \o (IF Truthy(request.career_goals) THEN <<Lower(request.career_goals)>> ELSE << >>))

\* the terms of the user query of each request, as skill_vectorizer.transform
\* sees them
QueryTermsTable == [r \in Requests |-> Analyze(BuildUserQuery(r))] @@ << >>

QueryTerms(request) ==
    IF request \in Requests THEN QueryTermsTable[request]
    ELSE Analyze(BuildUserQuery(request))

\* the exception that the body of the try of _calculate_content_similarity
\* raises, "" when it raises none: transform on a missing vectorizer, transform
\* on a vectorizer that was never fitted, a row past the end of the matrix,
\* vectors of different widths
ContentSimilarityTry(vectorizer, matrix, course_index) ==
    IF vectorizer.is_none THEN "AttributeError"
    ELSE IF ~vectorizer.fitted THEN "NotFittedError"
    ELSE IF course_index \notin DOMAIN matrix.rows THEN "IndexError"
    ELSE IF Len(matrix.rows[course_index]) # Len(vectorizer.vocabulary) THEN "ValueError"
    ELSE ""

\* a faulty _calculate_content_similarity without its except clause: what the
\* body of the try raises leaves the call
CalculateContentSimilarityNoExcept(vectorizer, matrix, request, course_index) ==
    IF Len(BuildUserQuery(request)) = 0 \/ matrix.is_none THEN ""
    ELSE ContentSimilarityTry(vectorizer, matrix, course_index)

\* the exception a _calculate_content_similarity call ends in, "" when it
\* returns: the guard before the try raises nothing, and the bare except
\* turns whatever the body of the try raises into return 0.0
CalculateContentSimilarityRaises(vectorizer, matrix, request, course_index) ==
    IF Len(BuildUserQuery(request)) = 0 \/ matrix.is_none THEN ""
    ELSE IF ContentSimilarityTry(vectorizer, matrix, course_index) # "" THEN ""
    ELSE ""

\* _calculate_content_similarity; course_index counts from 1 here (the code's
\* enumerate counts from 0). Inside the try, a missing or unfitted vectorizer
\* and a row past the end of the matrix raise, and the except returns 0.0.
CalculateContentSimilarity(vectorizer, matrix, request, course_index) ==
    IF Len(BuildUserQuery(request)) = 0 \/ matrix.is_none THEN 0
    ELSE IF vectorizer.is_none \/ ~vectorizer.fitted THEN 0
    ELSE IF course_index \notin DOMAIN matrix.rows THEN 0
    ELSE IF Len(matrix.rows[course_index]) # Len(vectorizer.vocabulary) THEN 0
    ELSE CosineSimilarity(Transform(vectorizer, QueryTerms(request)),
                          matrix.rows[course_index])

\* a faulty _calculate_location_score: an online course scores 1.5
CalculateLocationScoreBoosted(course, request) ==
    IF ~Truthy(request.location) THEN 10
    ELSE IF Truthy(course.modality) /\ Lower(course.modality) = <<"o","n","l","i","n","e">> THEN 15
    ELSE IF Truthy(course.location_city)
            /\ Contains(Lower(course.location_city), Lower(request.location)) THEN 10
    ELSE IF Truthy(course.location_country)
            /\ Contains(Lower(course.location_country), Lower(request.location)) THEN 7
    ELSE 1

\* a faulty _calculate_location_score: the online test is left out
CalculateLocationScoreNoOnline(course, request) ==
    IF ~Truthy(request.location) THEN 10
    ELSE IF Truthy(course.location_city)
            /\ Contains(Lower(course.location_city), Lower(request.location)) THEN 10
    ELSE IF Truthy(course.location_country)
            /\ Contains(Lower(course.location_country), Lower(request.location)) THEN 7
    ELSE 1

\* _calculate_location_score
CalculateLocationScore(course, request) ==
    IF ~Truthy(request.location) THEN 10
    ELSE IF Truthy(course.modality) /\ Lower(course.modality) = <<"o","n","l","i","n","e">> THEN 10
    ELSE IF Truthy(course.location_city)
            /\ Contains(Lower(course.location_city), Lower(request.location)) THEN 10
    ELSE IF Truthy(course.location_country)
            /\ Contains(Lower(course.location_country), Lower(request.location)) THEN 7
    ELSE 1

\* the loop of _calculate_career_score over course.career_outcomes: the score
\* it returns at the first outcome whose title or description holds the goal
\* text, or 0 when it ends without returning
CareerOutcomeLoop(outcomes, goals) ==
    LET TitleHit(i) == Contains(Lower(outcomes[i].title), goals)
        DescriptionHit(i) ==
            /\ Truthy(outcomes[i].description)
            /\ Contains(Lower(outcomes[i].description), goals)
        hits == {i \in DOMAIN outcomes : TitleHit(i) \/ DescriptionHit(i)}
    IN  IF hits = {} THEN 0
        ELSE IF TitleHit(CHOOSE i \in hits : \A j \in hits : i <= j) THEN 10
        ELSE 8

\* _calculate_career_score
CalculateCareerScore(course, request) ==
    IF ~Truthy(request.career_goals) THEN 10
    ELSE LET goals == Lower(request.career_goals)
             inLoop == CareerOutcomeLoop(course.career_outcomes, goals)
         IN  IF inLoop # 0 THEN inLoop
             ELSE IF Truthy(course.description)
                     /\ Contains(Lower(course.description), goals) THEN 6
             ELSE 3

\* a faulty _calculate_filter_score: a modality mismatch is a penalty of 0.5,
\* not an exclusion
CalculateFilterScoreSoft(course, request) ==
    IF /\ Truthy(request.modality) /\ Truthy(course.modality)
       /\ Lower(request.modality) # Lower(course.modality) THEN 5
    ELSE IF /\ Truthy(request.language_of_instruction)
            /\ Lower(course.language_of_instruction) # Lower(request.language_of_instruction)
         THEN 1
    ELSE IF /\ TruthyNum(request.max_tuition) /\ TruthyNum(course.tuition_fee)
            /\ course.tuition_fee > request.max_tuition THEN 2
    ELSE IF /\ TruthyNum(request.max_duration_months) /\ TruthyNum(course.duration_months)
            /\ course.duration_months > request.max_duration_months THEN 3
    ELSE IF /\ Truthy(request.course_level) /\ Truthy(course.course_level)
            /\ Lower(request.course_level) # Lower(course.course_level) THEN 5
    ELSE 10

\* a faulty _calculate_filter_score: the rules are tried from the last to the
\* first, so the penalty of the last violated rule is returned
CalculateFilterScoreLastWins(course, request) ==
    IF /\ Truthy(request.course_level) /\ Truthy(course.course_level)
       /\ Lower(request.course_level) # Lower(course.course_level) THEN 5
    ELSE IF /\ TruthyNum(request.max_duration_months) /\ TruthyNum(course.duration_months)
            /\ course.duration_months > request.max_duration_months THEN 3
    ELSE IF /\ TruthyNum(request.max_tuition) /\ TruthyNum(course.tuition_fee)
            /\ course.tuition_fee > request.max_tuition THEN 2
    ELSE IF /\ Truthy(request.language_of_instruction)
            /\ Lower(course.language_of_instruction) # Lower(request.language_of_instruction)
         THEN 1
    ELSE IF /\ Truthy(request.modality) /\ Truthy(course.modality)
            /\ Lower(request.modality) # Lower(course.modality) THEN 0
    ELSE 10

\* _calculate_filter_score
CalculateFilterScore(course, request) ==
    IF /\ Truthy(request.modality) /\ Truthy(course.modality)
       /\ Lower(request.modality) # Lower(course.modality) THEN 0
    ELSE IF /\ Truthy(request.language_of_instruction)
            /\ Lower(course.language_of_instruction) # Lower(request.language_of_instruction)
         THEN 1
    ELSE IF /\ TruthyNum(request.max_tuition) /\ TruthyNum(course.tuition_fee)
            /\ course.tuition_fee > request.max_tuition THEN 2
    ELSE IF /\ TruthyNum(request.max_duration_months) /\ TruthyNum(course.duration_months)
            /\ course.duration_months > request.max_duration_months THEN 3
    ELSE IF /\ Truthy(request.course_level) /\ Truthy(course.course_level)
            /\ Lower(request.course_level) # Lower(course.course_level) THEN 5
    ELSE 10

\* the inner loop of _find_skill_matches for one user skill: the first course
\* skill that holds it or is held by it, title-cased (then `break`)
FirstSkillMatch(user_skill, course_skills) ==
    LET hits == {i \in DOMAIN course_skills :
                    \/ Contains(course_skills[i], user_skill)
                    \/ Contains(user_skill, course_skills[i])}
    IN  IF hits = {} THEN << >>
        ELSE <<Title(course_skills[CHOOSE i \in hits : \A j \in hits : i <= j])>>

\* _find_skill_matches; list(set(matches)) has no order the code fixes, so
\* the result is the set
FindSkillMatches(course, user_skills) ==
    LET course_skills_lower == [i \in DOMAIN course.skills |-> Lower(course.skills[i].name)]
        found == [i \in DOMAIN user_skills |->
                    FirstSkillMatch(Lower(user_skills[i]), course_skills_lower)]
    IN  {found[i][1] : i \in {j \in DOMAIN user_skills : found[j] # << >>}}

\* the sub-scores of _calculate_course_score that the course and the request
\* alone decide
RuleScores(course, request) ==
    [location_score |-> CalculateLocationScore(course, request),
     career_score |-> CalculateCareerScore(course, request),
     filter_score |-> CalculateFilterScore(course, request),
     skill_matches |-> FindSkillMatches(course, request.skills)]

\* RuleScores of every course and request of the model
RuleScoresTable == [c \in CoursePool, r \in Requests |-> RuleScores(c, r)] @@ << >>

\* a faulty total: the filter score is left out of the product
TotalScoreUnfiltered(content_score, location_score, career_score, filter_score, request) ==
    ( content_score * (request.skill_weight + request.interest_weight)
      + location_score * request.location_weight
      + career_score * request.career_weight ) * 10

\* a faulty total: the filter score is a fifth term of the sum
TotalScoreAdditive(content_score, location_score, career_score, filter_score, request) ==
    ( content_score * (request.skill_weight + request.interest_weight)
      + location_score * request.location_weight
      + career_score * request.career_weight ) * 10 + filter_score * 100

\* the weighted total of _calculate_course_score, in 1/10000
TotalScore(content_score, location_score, career_score, filter_score, request) ==
    ( content_score * (request.skill_weight + request.interest_weight)
      + location_score * request.location_weight
      + career_score * request.career_weight ) * filter_score

\* the dictionary _calculate_course_score returns
ScoreData(course, request, content_score, rule) ==
    [course |-> course,
     total_score |-> TotalScore(content_score, rule.location_score, rule.career_score,
                                rule.filter_score, request),
     content_score |-> content_score,
     location_score |-> rule.location_score,
     career_score |-> rule.career_score,
     filter_score |-> rule.filter_score,
     skill_matches |-> rule.skill_matches]

\* _calculate_course_score
CalculateCourseScore(vectorizer, matrix, course, request, course_index) ==
    ScoreData(course, request,
              CalculateContentSimilarity(vectorizer, matrix, request, course_index),
              IF course \in CoursePool /\ request \in Requests
              THEN RuleScoresTable[course, request]
              ELSE RuleScores(course, request))

\* the exception _calculate_course_score ends in, "" for none: .lower() on a
\* career outcome title, on the course's language or on a skill name that is
\* None. The career loop reaches a title only when no outcome before it held
\* the goal text; the language test is reached only past the modality test.
CalculateCourseScoreRaises(course, request) ==
    LET outcomes == course.career_outcomes
        goals == Lower(request.career_goals)
        Hit(i) == \/ Contains(Lower(outcomes[i].title), goals)
                  \/ /\ Truthy(outcomes[i].description)
                     /\ Contains(Lower(outcomes[i].description), goals)
        careerRaises ==
            /\ Truthy(request.career_goals)
            /\ \E i \in DOMAIN outcomes :
                   /\ outcomes[i].title = NoneStr
                   /\ \A j \in 1..(i - 1) : outcomes[j].title # NoneStr /\ ~Hit(j)
        filterRaises ==
            /\ course.language_of_instruction = NoneStr
            /\ Truthy(request.language_of_instruction)
            /\ ~( /\ Truthy(request.modality) /\ Truthy(course.modality)
                  /\ Lower(request.modality) # Lower(course.modality) )
        skillRaises == \E i \in DOMAIN course.skills : course.skills[i].name = NoneStr
    IN  IF careerRaises \/ filterRaises \/ skillRaises THEN "AttributeError" ELSE ""

(***************************************************************************)
(* Ranking and reporting.                                                  *)
(***************************************************************************)
\* the minimum threshold of get_recommendations, 0.1, in 1/10000
MinimumThreshold == 1000

\* le=1.0 of CourseMatch.match_score, in 1/10000
MaxMatchScore == 10000

\* a faulty ranking: the candidates stay in snapshot order
KeepOrder(scores) == scores

\* a faulty ranking: descending, but candidates of equal score come out in
\* the reverse of their snapshot order
SortByScoreTiesReversed(scores) ==
    LET Place(i) ==
            1 + Cardinality({j \in DOMAIN scores : scores[j].total_score > scores[i].total_score})
              + Cardinality({j \in (i + 1)..Len(scores) :
                                scores[j].total_score = scores[i].total_score})
    IN  [p \in DOMAIN scores |-> scores[CHOOSE i \in DOMAIN scores : Place(i) = p]]

\* list.sort(key=total_score, reverse=True) is a stable sort: an element
\* comes behind the elements of greater score, and behind those of equal
\* score that stood before it
SortByScore(scores) ==
    LET Place(i) ==
            1 + Cardinality({j \in DOMAIN scores : scores[j].total_score > scores[i].total_score})
              + Cardinality({j \in 1..(i - 1) : scores[j].total_score = scores[i].total_score})
    IN  [p \in DOMAIN scores |-> scores[CHOOSE i \in DOMAIN scores : Place(i) = p]]

\* a faulty slice: s[:n + 1], one element more than asked for
SliceToInclusive(s, n) ==
    IF n >= 0 THEN SubSeq(s, 1, IF n + 1 < Len(s) THEN n + 1 ELSE Len(s))
    ELSE SubSeq(s, 1, IF Len(s) + n + 1 > 0 THEN Len(s) + n + 1 ELSE 0)

\* the slice s[:n] of Python, n of either sign
SliceTo(s, n) ==
    IF n >= 0 THEN SubSeq(s, 1, IF n < Len(s) THEN n ELSE Len(s))
    ELSE SubSeq(s, 1, IF Len(s) + n > 0 THEN Len(s) + n ELSE 0)

\* the three skills _generate_match_explanation names: skill_matches[:3] of
\* a list whose order the code does not fix
FirstThree(matches) ==
    IF Cardinality(matches) <= 3 THEN matches
    ELSE CHOOSE m \in SUBSET matches : Cardinality(m) = 3

\* a faulty _generate_match_explanation: the three bounds are not strict
GenerateMatchExplanationLoose(score_data) ==
    LET notes ==
            (IF score_data.skill_matches # {} THEN <<"Matches n of your skills">> ELSE << >>)
            \o (IF score_data.location_score >= 8 THEN <<"Good location match">> ELSE << >>)
            \o (IF score_data.career_score >= 8 THEN <<"Aligns with your career goals">> ELSE << >>)
            \o (IF score_data.content_score >= 7 THEN <<"Strong content relevance">> ELSE << >>)
    IN  [skills_count |-> Cardinality(score_data.skill_matches),
         skills_named |-> FirstThree(score_data.skill_matches),
         sentences |-> IF Len(notes) = 0
                       THEN <<"General compatibility based on your preferences">>
                       ELSE notes]

\* _generate_match_explanation: the sentences, in order; the skill sentence
\* is kept as the count and the skills it names
GenerateMatchExplanation(score_data) ==
    LET notes ==
            (IF score_data.skill_matches # {} THEN <<"Matches n of your skills">> ELSE << >>)
            \o (IF score_data.location_score > 8 THEN <<"Good location match">> ELSE << >>)
            \o (IF score_data.career_score > 8 THEN <<"Aligns with your career goals">> ELSE << >>)
            \o (IF score_data.content_score > 7 THEN <<"Strong content relevance">> ELSE << >>)
    IN  [skills_count |-> Cardinality(score_data.skill_matches),
         skills_named |-> FirstThree(score_data.skill_matches),
         sentences |-> IF Len(notes) = 0
                       THEN <<"General compatibility based on your preferences">>
                       ELSE notes]

\* the Field constraints of CourseMatch: ge=0.0, le=1.0 on match_score and
\* on the four *_match_score fields
CourseMatchValid(score_data) ==
    /\ 0 <= score_data.total_score /\ score_data.total_score <= MaxMatchScore
    /\ 0 <= score_data.content_score /\ score_data.content_score <= 10
    /\ 0 <= score_data.location_score /\ score_data.location_score <= 10
    /\ 0 <= score_data.career_score /\ score_data.career_score <= 10

\* _create_course_match, when the CourseMatch constructor accepts the values
CreateCourseMatch(score_data) ==
    [course |-> score_data.course,
     match_score |-> score_data.total_score,
     match_explanation |-> GenerateMatchExplanation(score_data),
     skill_matches |-> score_data.skill_matches,
     skill_match_score |-> score_data.content_score,
     interest_match_score |-> score_data.content_score,
     location_match_score |-> score_data.location_score,
     career_match_score |-> score_data.career_score,
     missing_requirements |-> IF Truthy(score_data.course.entry_requirements)
                              THEN <<"Please check entry requirements">> ELSE << >>,
     similar_alternatives |-> << >>]

\* sum(s['total_score'] for s in course_scores)
SumScores(course_scores) ==
    SumSeq([i \in DOMAIN course_scores |-> course_scores[i].total_score])

\* a faulty mean: the total score of the best candidate alone, the mean of
\* the list cut to one candidate
MeanScoreOfBest(course_scores) == course_scores[1].total_score

\* np.mean of the total scores, in 1/10000, rounded down
MeanScore(course_scores) == SumScores(course_scores) \div Len(course_scores)

\* _generate_search_metadata; "error" is the key of the empty-catalog metadata
GenerateSearchMetadata(cache, request, course_scores) ==
    [error |-> "",
     total_courses_analyzed |-> Len(cache),
     query_skills_count |-> Len(request.skills),
     query_interests_count |-> Len(request.interests),
     average_match_score |-> IF Len(course_scores) > 0 THEN MeanScore(course_scores) ELSE 0,
     filters_applied |-> [location |-> Truthy(request.location),
                          modality |-> Truthy(request.modality),
                          max_tuition |-> TruthyNum(request.max_tuition),
                          course_level |-> Truthy(request.course_level)]]

\* the search_metadata of the empty-catalog response
NoCoursesMetadata ==
    [error |-> "No courses available",
     total_courses_analyzed |-> 0, query_skills_count |-> 0, query_interests_count |-> 0,
     average_match_score |-> 0,
     filters_applied |-> [location |-> FALSE, modality |-> FALSE,
                          max_tuition |-> FALSE, course_level |-> FALSE]]

\* _generate_suggestions; the mean is below 0.3 iff the sum is below 0.3 * len
GenerateSuggestions(request, course_scores) ==
    (IF Len(course_scores) < 5
     THEN <<"Try expanding your location preferences or considering online courses">>
     ELSE << >>)
    \o (IF Len(request.skills) = 0
        THEN <<"Add specific skills to get more targeted recommendations">>
        ELSE << >>)
    \o (IF TruthyNum(request.max_tuition) /\ request.max_tuition < 10000
        THEN <<"Consider increasing your budget or looking for scholarship opportunities">>
        ELSE << >>)
    \o (IF Len(course_scores) > 0 /\ SumScores(course_scores) < 3000 * Len(course_scores)
        THEN <<"Your criteria might be too specific. Try broadening your preferences">>
        ELSE << >>)

(***************************************************************************)
(* The engine: CourseRecommendationEngine and its callers.                 *)
(***************************************************************************)
VARIABLES
    db,                   \* the rows of the courses table, in query order
    courses_cache,        \* self.courses_cache
    skill_vectorizer,     \* self.skill_vectorizer
    course_skill_matrix,  \* self.course_skill_matrix
    last_request,         \* the request of the last get_recommendations call
    last_limit,           \* its limit
    all_scores,           \* the score_data of each course in that call's loop
    response,             \* what that call returned or raised
    previous,             \* what the call before it returned or raised, when it
                          \* was a call with the same request and limit
    snapshot,             \* the catalog the last initialize() call loaded, once
                          \* it has returned; initialize() is called by the
                          \* engine's user and by get_recommendations itself
    rule_call,            \* one _calculate_course_score call: its course, its
                          \* request and, once it has returned, its score data
    similarity_call,      \* one _calculate_content_similarity call: its query,
                          \* its position and, once it has returned, its value
    calls                 \* the get_recommendations calls that threads make on
                          \* the one engine: where each stands, and its locals

vars ==
    <<db, courses_cache, skill_vectorizer, course_skill_matrix,
      last_request, last_limit, all_scores, response, previous, snapshot,
      rule_call, similarity_call, calls>>

\* self.skill_vectorizer = None
NoVectorizer == [is_none |-> TRUE, fitted |-> FALSE, vocabulary |-> << >>, idf |-> << >>]

\* self.course_skill_matrix = None
NoMatrix == [is_none |-> TRUE, rows |-> << >>]

\* no get_recommendations call has ended on this engine
NoResponse ==
    [kind |-> "none", error |-> "", recommendations |-> << >>, total_matches |-> 0,
     search_metadata |-> NoCoursesMetadata, suggestions |-> << >>]

\* the call ended in the exception `error`
Raised(error) ==
    [kind |-> "raised", error |-> error, recommendations |-> << >>, total_matches |-> 0,
     search_metadata |-> NoCoursesMetadata, suggestions |-> << >>]

\* RecommendationResponse(...)
RecommendationResponse(recommendations, total_matches, search_metadata, suggestions) ==
    [kind |-> "response", error |-> "", recommendations |-> recommendations,
     total_matches |-> total_matches, search_metadata |-> search_metadata,
     suggestions |-> suggestions]

\* a faulty empty-snapshot response: no suggestion
NoCoursesNoSuggestions == RecommendationResponse(<< >>, 0, NoCoursesMetadata, << >>)

\* the response to an empty snapshot
NoCoursesResponse ==
    RecommendationResponse(<< >>, 0, NoCoursesMetadata,
                           <<"Please ensure courses are loaded in the database">>)

\* the text document _build_skill_vectors makes of one course
CourseDocument(course) ==
    LET skills_text == Join([i \in DOMAIN course.skills |-> Lower(course.skills[i].name)])
        careers_text ==
            Join([i \in DOMAIN course.career_outcomes |-> Lower(course.career_outcomes[i].title)])
        course_text ==
            Strip(Lower(course.name) \o <<" ">>
                  \o (IF Truthy(course.description) THEN course.description ELSE << >>))
    IN  skills_text \o <<" ">> \o careers_text \o <<" ">> \o course_text

\* the fit of _build_skill_vectors on the documents of a snapshot
FitCourses(catalog) == FitTransform([i \in DOMAIN catalog |-> CourseDocument(catalog[i])])

\* FitCourses of every catalog of the model
FitTable == [catalog \in Catalogs |-> FitCourses(catalog)] @@ << >>

\* the field values update_course is called with
CourseUpdates == { [description |-> <<"s","q","l"," ","b","a","s","i","c","s">>] }

\* the rows the catalog writes of the endpoints make: created courses, as
\* created and as updated
WrittenCourses ==
    {CourseAI, CourseC}
    \cup { [course EXCEPT !.description = course_update.description] :
              course \in {CourseAI, CourseC}, course_update \in CourseUpdates }

\* the catalogs of such rows
WrittenCatalogs ==
    UNION {{c \in [1..n -> WrittenCourses] : \A i, j \in 1..n : i # j => c[i].id # c[j].id}
           : n \in 0..MaxCourses}

\* FitCourses of each of them
WrittenFitTable == [catalog \in WrittenCatalogs |-> FitCourses(catalog)] @@ << >>

\* initialize(): _load_courses, then _build_skill_vectors. The fields of the
\* engine after the call, and the exception the call ended in ("" for none).
\* The new vectorizer is assigned before fit_transform runs, the matrix after.
InitializeResult(catalog, vectorizer, matrix) ==
    IF Len(catalog) = 0
    THEN [courses_cache |-> catalog, skill_vectorizer |-> vectorizer,
          course_skill_matrix |-> matrix, raised |-> ""]
    ELSE LET fit == IF catalog \in Catalogs THEN FitTable[catalog]
                    ELSE IF catalog \in WrittenCatalogs THEN WrittenFitTable[catalog]
                    ELSE FitCourses(catalog)
         IN  IF fit.raised # ""
             THEN [courses_cache |-> catalog,
                   skill_vectorizer |-> [NoVectorizer EXCEPT !.is_none = FALSE],
                   course_skill_matrix |-> matrix, raised |-> fit.raised]
             ELSE [courses_cache |-> catalog,
                   skill_vectorizer |-> [is_none |-> FALSE, fitted |-> TRUE,
                                         vocabulary |-> fit.vocabulary, idf |-> fit.idf],
                   course_skill_matrix |-> [is_none |-> FALSE, rows |-> fit.matrix],
                   raised |-> ""]

\* the loop of get_recommendations over the snapshot: the score data of every
\* course, in snapshot order
AllCourseScores(cache, vectorizer, matrix, req) ==
    [i \in DOMAIN cache |-> CalculateCourseScore(vectorizer, matrix, cache[i], req, i)]

\* the courses the loop of get_recommendations scores before the first one
\* whose _calculate_course_score raises: the whole snapshot when none does
ScoredBeforeRaise(cache, req) ==
    LET raising == {i \in DOMAIN cache : CalculateCourseScoreRaises(cache[i], req) # ""}
    IN  IF raising = {} THEN cache
        ELSE SubSeq(cache, 1, (CHOOSE i \in raising : \A j \in raising : i <= j) - 1)

\* a faulty threshold test: a total of exactly 0.1 passes
AtOrAboveThreshold(s) == s.total_score >= MinimumThreshold

\* score_data['total_score'] > 0.1
AboveThreshold(s) == s.total_score > MinimumThreshold

\* get_recommendations from the second `if not self.courses_cache` on;
\* scores is the score_data of every course of the snapshot
RankCourses(cache, scores, req, lim) ==
    IF Len(cache) = 0 THEN NoCoursesResponse
    ELSE LET course_scores == SortByScore(SelectSeq(scores, AboveThreshold))
             returned == SliceTo(course_scores, lim)
         IN  IF \E i \in DOMAIN returned : ~CourseMatchValid(returned[i])
             THEN Raised("ValidationError")
             ELSE RecommendationResponse(
                      [i \in DOMAIN returned |-> CreateCourseMatch(returned[i])],
                      Len(course_scores),
                      GenerateSearchMetadata(cache, req, course_scores),
                      GenerateSuggestions(req, course_scores))

\* the threads that call the engine
Threads == {1, 2}

\* a thread that is in no call
IdleCall ==
    [pc |-> "idle", request |-> DefaultRequest, courses |-> << >>, rows |-> << >>,
     scores |-> << >>, result |-> NoResponse, alone |-> NoResponse]

NoCalls == [t \in Threads |-> IdleCall]

\* no _calculate_course_score call is followed
NoRuleCall ==
    [course |-> << >>, request |-> << >>, returned |-> FALSE, raised |-> "",
     score_data |-> << >>]

\* no _calculate_content_similarity call is followed
NoSimilarityCall ==
    [request |-> << >>, course_index |-> 0, skill_vectorizer |-> NoVectorizer,
     course_skill_matrix |-> NoMatrix, returned |-> FALSE, raised |-> "", value |-> 0]

\* no initialize() call has returned on the engine
NoSnapshot == [taken |-> FALSE, courses |-> << >>]

\* a catalog is in the database and CourseRecommendationEngine(db) has run
Init ==
    /\ db \in Catalogs
    /\ courses_cache = << >>
    /\ skill_vectorizer = NoVectorizer
    /\ course_skill_matrix = NoMatrix
    /\ last_request = DefaultRequest
    /\ last_limit = DefaultLimit
    /\ all_scores = << >>
    /\ response = NoResponse
    /\ previous = NoResponse
    /\ snapshot = NoSnapshot
    /\ rule_call = NoRuleCall
    /\ similarity_call = NoSimilarityCall
    /\ calls = NoCalls

\* engine = CourseRecommendationEngine(db): a new engine on the same database
NewEngine ==
    /\ response.kind # "none"
    /\ courses_cache' = << >>
    /\ skill_vectorizer' = NoVectorizer
    /\ course_skill_matrix' = NoMatrix
    /\ last_request' = DefaultRequest
    /\ last_limit' = DefaultLimit
    /\ all_scores' = << >>
    /\ response' = NoResponse
    /\ previous' = NoResponse
    /\ snapshot' = NoSnapshot
    /\ UNCHANGED <<db, rule_call, similarity_call, calls>>

\* engine.initialize()
Initialize ==
    \E r \in {InitializeResult(db, skill_vectorizer, course_skill_matrix)} :
        /\ courses_cache' = r.courses_cache
        /\ skill_vectorizer' = r.skill_vectorizer
        /\ course_skill_matrix' = r.course_skill_matrix
        /\ snapshot' = IF r.raised = "" THEN [taken |-> TRUE, courses |-> r.courses_cache]
                       ELSE NoSnapshot
        /\ UNCHANGED <<db, last_request, last_limit, all_scores, response, previous,
                       rule_call, similarity_call, calls>>

\* engine.get_recommendations(req, lim): initialize() when the snapshot is
\* empty, then the scoring loop over the snapshot, then the ranking; an
\* exception of initialize() ends the call before the loop, an exception of
\* _calculate_course_score ends it in the loop
GetRecommendations(req, lim) ==
    \E init \in {IF Len(courses_cache) = 0
                 THEN InitializeResult(db, skill_vectorizer, course_skill_matrix)
                 ELSE [courses_cache |-> courses_cache,
                       skill_vectorizer |-> skill_vectorizer,
                       course_skill_matrix |-> course_skill_matrix, raised |-> ""]} :
    \E scored \in {IF init.raised # "" THEN << >>
                   ELSE ScoredBeforeRaise(init.courses_cache, req)} :
    \E scores \in {AllCourseScores(scored, init.skill_vectorizer,
                                    init.course_skill_matrix, req)} :
        /\ courses_cache' = init.courses_cache
        /\ skill_vectorizer' = init.skill_vectorizer
        /\ course_skill_matrix' = init.course_skill_matrix
        /\ last_request' = req
        /\ last_limit' = lim
        /\ all_scores' = scores
        /\ response' = IF init.raised # "" THEN Raised(init.raised)
                       ELSE IF Len(scored) < Len(init.courses_cache)
                       THEN Raised(CalculateCourseScoreRaises(
                                       init.courses_cache[Len(scored) + 1], req))
                       ELSE RankCourses(init.courses_cache, scores, req, lim)
        /\ previous' = IF response.kind # "none" /\ req = last_request /\ lim = last_limit
                       THEN response ELSE NoResponse
        /\ snapshot' = IF Len(courses_cache) # 0 THEN snapshot
                       ELSE IF init.raised = ""
                       THEN [taken |-> TRUE, courses |-> init.courses_cache]
                       ELSE NoSnapshot
        /\ UNCHANGED <<db, rule_call, similarity_call, calls>>

Next ==
    \/ NewEngine
    \/ Initialize
    \/ \E req \in Requests, lim \in Limits : GetRecommendations(req, lim)

Spec == Init /\ [][Next]_vars

(***************************************************************************)
(* The engine on a catalog that changes: courses are created and deleted   *)
(* through the courses endpoints while the engine lives.                   *)
(***************************************************************************)
\* create_course: db.add(db_course), db.commit(); the new row is the last of
\* the table
CreateCourse(course) ==
    /\ Len(db) < MaxCourses
    /\ \A i \in DOMAIN db : db[i].id # course.id
    /\ db' = Append(db, course)
    /\ UNCHANGED <<courses_cache, skill_vectorizer, course_skill_matrix,
                   last_request, last_limit, all_scores, response, previous, snapshot,
                   rule_call, similarity_call, calls>>

\* delete_course: db.delete(course), db.commit(), for the course of that id
DeleteCourse(course_id) ==
    /\ \E i \in DOMAIN db : db[i].id = course_id
    /\ db' = SelectSeq(db, LAMBDA row : row.id # course_id)
    /\ UNCHANGED <<courses_cache, skill_vectorizer, course_skill_matrix,
                   last_request, last_limit, all_scores, response, previous, snapshot,
                   rule_call, similarity_call, calls>>

\* the courses created while the engine lives
NewCourses == {CourseAI, CourseC}

\* the courses table is empty and CourseRecommendationEngine(db) has run
InitCatalog ==
    /\ db = << >>
    /\ courses_cache = << >>
    /\ skill_vectorizer = NoVectorizer
    /\ course_skill_matrix = NoMatrix
    /\ last_request = DefaultRequest
    /\ last_limit = DefaultLimit
    /\ all_scores = << >>
    /\ response = NoResponse
    /\ previous = NoResponse
    /\ snapshot = NoSnapshot
    /\ rule_call = NoRuleCall
    /\ similarity_call = NoSimilarityCall
    /\ calls = NoCalls

\* the requests made of the engine on a changing catalog
CatalogRequests ==
    { Query(DefaultWeights, DataText, NoFilters),
      Query(DefaultWeights, NoText, EnglishFilter) }

NextCatalog ==
    \/ NewEngine
    \/ Initialize
    \/ \E course \in NewCourses : CreateCourse(course)
    \/ \E course \in NewCourses : DeleteCourse(course.id)
    \/ \E req \in CatalogRequests : GetRecommendations(req, DefaultLimit)

SpecCatalog == InitCatalog /\ [][NextCatalog]_vars

(***************************************************************************)
(* The engine on a courses table that holds a row with no language of      *)
(* instruction: a table on which NOT NULL is not enforced.                 *)
(***************************************************************************)
\* a row whose language_of_instruction is NULL
CourseNoLanguage ==
    [CourseAI EXCEPT !.id = 6, !.name = <<"N","L","P">>,
                     !.language_of_instruction = NoneStr]

LegacyCourses == {CourseAI, CourseData, CourseNoLanguage}

LegacyCatalogs ==
    UNION {{c \in [1..n -> LegacyCourses] : \A i, j \in 1..n : i # j => c[i].id # c[j].id}
           : n \in 1..MaxCourses}

LegacyRequests ==
    { Query(DefaultWeights, DataText, NoFilters),
      Query(DefaultWeights, DataText, EnglishFilter),
      Query(DefaultWeights, NoText, EnglishFilter),
      Query(DefaultWeights, PythonText, EnglishFilter),
      Query(DefaultWeights, PythonText, BerlinOnlineFilter),
      Query(LocationWeights, NoText, NoFilters) }

\* such a table is in the database and CourseRecommendationEngine(db) has run
InitLegacy ==
    /\ db \in LegacyCatalogs
    /\ courses_cache = << >>
    /\ skill_vectorizer = NoVectorizer
    /\ course_skill_matrix = NoMatrix
    /\ last_request = DefaultRequest
    /\ last_limit = DefaultLimit
    /\ all_scores = << >>
    /\ response = NoResponse
    /\ previous = NoResponse
    /\ snapshot = NoSnapshot
    /\ rule_call = NoRuleCall
    /\ similarity_call = NoSimilarityCall
    /\ calls = NoCalls

NextLegacy ==
    \/ NewEngine
    \/ Initialize
    \/ \E req \in LegacyRequests : GetRecommendations(req, DefaultLimit)

SpecLegacy == InitLegacy /\ [][NextLegacy]_vars

(***************************************************************************)
(* The engine called with other limits: none, fewer than the catalog       *)
(* holds, as many, and the default.                                        *)
(***************************************************************************)
QueryLimits == {0, 1, 2, DefaultLimit}

LimitRequests ==
    { Query(DefaultWeights, DataText, NoFilters),
      Query(DefaultWeights, NoText, EnglishFilter) }

NextLimit ==
    \/ NewEngine
    \/ \E req \in LimitRequests, lim \in QueryLimits : GetRecommendations(req, lim)

SpecLimit == Init /\ [][NextLimit]_vars

(***************************************************************************)
(* One _calculate_course_score call on an engine that holds no index, for  *)
(* every course and request of a wider range than the catalogs above.      *)
(***************************************************************************)
\* a course with two career outcomes, no city, no tuition, no duration and no
\* level
CourseML ==
    [id |-> 5, name |-> <<"M","L">>, description |-> <<"m","a","c","h","i","n","e"," ","l","e","a","r","n","i","n","g">>,
     location_city |-> NoneStr, location_country |-> <<"G","e","r","m","a","n","y">>,
     language_of_instruction |-> <<"G","e","r","m","a","n">>, modality |-> <<"i","n","-","p","e","r","s","o","n">>,
     duration_months |-> NoneNum, tuition_fee |-> NoneNum, course_level |-> NoneStr,
     entry_requirements |-> NoneStr,
     skills |-> <<Skill(<<"P","y","t","h","o","n">>)>>,
     career_outcomes |-> <<CareerOutcome(<<"A","n","a","l","y","s","t">>, <<"d","a","t","a"," ","e","n","g","i","n","e","e","r">>),
                           CareerOutcome(<<"D","a","t","a"," ","S","c","i","e","n","t","i","s","t">>, NoneStr)>>]

RuleCourses == CoursePool \cup {CourseML, CourseNoLanguage}

\* further structured filters
FrenchTuitionFilter == [NoFilters EXCEPT !.language_of_instruction = <<"f","r","e","n","c","h">>, !.max_tuition = 15000]
OnlineFrenchFilter == [FrenchTuitionFilter EXCEPT !.modality = <<"o","n","l","i","n","e">>]
TuitionDurationFilter == [NoFilters EXCEPT !.max_tuition = 15000, !.max_duration_months = 6]
ShortUndergraduateFilter == [NoFilters EXCEPT !.max_duration_months = 6, !.course_level = <<"U","n","d","e","r","g","r","a","d","u","a","t","e">>]
ParisUndergraduateFilter == [NoFilters EXCEPT !.location = <<"P","a","r","i","s">>, !.course_level = <<"u","n","d","e","r","g","r","a","d","u","a","t","e">>]
ZeroTuitionFilter == [NoFilters EXCEPT !.max_tuition = 0]

\* further career goals
AnalystText == [NoText EXCEPT !.career_goals = <<"A","N","A","L","Y","S","T">>]
EngineerText == [NoText EXCEPT !.career_goals = <<"E","n","g","i","n","e","e","r">>]
LearningText == [NoText EXCEPT !.career_goals = <<"l","e","a","r","n","i","n","g">>]

\* skill terms: one that holds two tags of the Data course, and two terms that
\* meet the same tag
PythonSqlText == [NoText EXCEPT !.skills = <<<<"P","y","t","h","o","n"," ","S","Q","L">>>>]
TwicePythonText == [NoText EXCEPT !.skills = <<<<"p","y","t","h","o","n">>, <<"P","y","t","h">>, <<"j","a","v","a">>>>]

\* the requests of the followed call: RecommendationRequest() as the schema
\* fills it, the same with free text, queries that name their filters, and
\* queries with other career goals
RuleRequests ==
    { DefaultRequest, WithText(DefaultRequest, DataText) }
    \cup { Query(DefaultWeights, t, NoFilters) : t \in {AnalystText, EngineerText, LearningText,
                                                      PythonSqlText, TwicePythonText} }
    \cup { Query(DefaultWeights, DataText, f) :
               f \in { NoFilters, EnglishFilter, BerlinOnlineFilter, GermanyTuitionFilter,
                       InPersonFilter, FrenchTuitionFilter, OnlineFrenchFilter,
                       TuitionDurationFilter, ShortUndergraduateFilter,
                       ParisUndergraduateFilter, ZeroTuitionFilter } }

\* CourseRecommendationEngine(db) has run and a course and a request are at
\* hand
InitRules ==
    /\ db = << >>
    /\ courses_cache = << >>
    /\ skill_vectorizer = NoVectorizer
    /\ course_skill_matrix = NoMatrix
    /\ last_request = DefaultRequest
    /\ last_limit = DefaultLimit
    /\ all_scores = << >>
    /\ response = NoResponse
    /\ previous = NoResponse
    /\ snapshot = NoSnapshot
    /\ similarity_call = NoSimilarityCall
    /\ calls = NoCalls
    /\ \E course \in RuleCourses, request \in RuleRequests :
           rule_call = [course |-> course, request |-> request,
                        returned |-> FALSE, raised |-> "", score_data |-> << >>]

\* self._calculate_course_score(course, request, user_query, 0)
CalculateCourseScoreCall ==
    /\ rule_call # NoRuleCall
    /\ ~rule_call.returned
    /\ rule_call.raised = ""
    /\ \E error \in {CalculateCourseScoreRaises(rule_call.course, rule_call.request)} :
           rule_call' =
               IF error # "" THEN [rule_call EXCEPT !.raised = error]
               ELSE [rule_call EXCEPT
                        !.returned = TRUE,
                        !.score_data = CalculateCourseScore(skill_vectorizer, course_skill_matrix,
                                                            rule_call.course, rule_call.request, 1)]
    /\ UNCHANGED <<db, courses_cache, skill_vectorizer, course_skill_matrix,
                   last_request, last_limit, all_scores, response, previous, snapshot,
                   similarity_call, calls>>

NextRules == CalculateCourseScoreCall

SpecRules == InitRules /\ [][NextRules]_vars

(***************************************************************************)
(* Threads that call get_recommendations on one engine at the same time.   *)
(* The engine holds no lock, so a call is a chain of steps, each reading   *)
(* or writing a field of the engine once, and the steps of the calls       *)
(* interleave freely. initialize() has returned before a call is accepted; *)
(* courses are created and deleted while no call is under way.             *)
(***************************************************************************)
\* what the threads ask
ThreadRequests == { Query(DefaultWeights, DataText, NoFilters) }

\* no call is under way
AllIdle == \A t \in Threads : calls[t].pc = "idle"

\* the engine's user calls initialize(), before any call is accepted
InitializeFirst == AllIdle /\ Initialize

CreateCourseIdle(course) == AllIdle /\ CreateCourse(course)

DeleteCourseIdle(course_id) == AllIdle /\ DeleteCourse(course_id)

\* thread t enters get_recommendations(req, 20). `alone` is what the call
\* would return if all of it ran now, with no step of another thread in it.
Accept(t, req) ==
    /\ calls[t].pc = "idle"
    /\ snapshot.taken
    /\ \E init \in {IF Len(courses_cache) = 0
                    THEN InitializeResult(db, skill_vectorizer, course_skill_matrix)
                    ELSE [courses_cache |-> courses_cache,
                          skill_vectorizer |-> skill_vectorizer,
                          course_skill_matrix |-> course_skill_matrix, raised |-> ""]} :
       \E scored \in {IF init.raised # "" THEN << >>
                      ELSE ScoredBeforeRaise(init.courses_cache, req)} :
       \E scores \in {AllCourseScores(scored, init.skill_vectorizer,
                                       init.course_skill_matrix, req)} :
           calls' = [calls EXCEPT ![t] =
                        [IdleCall EXCEPT
                            !.pc = "check",
                            !.request = req,
                            !.alone =
                                IF init.raised # "" THEN Raised(init.raised)
                                ELSE IF Len(scored) < Len(init.courses_cache)
                                THEN Raised(CalculateCourseScoreRaises(
                                                init.courses_cache[Len(scored) + 1], req))
                                ELSE RankCourses(init.courses_cache, scores, req,
                                                 DefaultLimit)]]
    /\ UNCHANGED <<db, courses_cache, skill_vectorizer, course_skill_matrix,
                   last_request, last_limit, all_scores, response, previous, snapshot,
                   rule_call, similarity_call>>

\* line 74: if not self.courses_cache
CheckCache(t) ==
    /\ calls[t].pc = "check"
    /\ calls' = [calls EXCEPT ![t].pc = IF Len(courses_cache) = 0 THEN "load" ELSE "ready"]
    /\ UNCHANGED <<db, courses_cache, skill_vectorizer, course_skill_matrix,
                   last_request, last_limit, all_scores, response, previous, snapshot,
                   rule_call, similarity_call>>

\* _load_courses, line 32: self.courses_cache = self.db.query(Course).all()
LoadCourses(t) ==
    /\ calls[t].pc = "load"
    /\ courses_cache' = db
    /\ calls' = [calls EXCEPT ![t].pc = "build"]
    /\ UNCHANGED <<db, skill_vectorizer, course_skill_matrix,
                   last_request, last_limit, all_scores, response, previous, snapshot,
                   rule_call, similarity_call>>

\* _build_skill_vectors, lines 36-60: return on an empty snapshot; else the
\* documents of the courses of self.courses_cache, and
\* self.skill_vectorizer = TfidfVectorizer(...), a vectorizer not yet fitted
BuildSkillVectors(t) ==
    /\ calls[t].pc = "build"
    /\ IF Len(courses_cache) = 0
       THEN /\ calls' = [calls EXCEPT ![t].pc = "ready"]
            /\ snapshot' = [taken |-> TRUE, courses |-> courses_cache]
            /\ UNCHANGED skill_vectorizer
       ELSE /\ calls' = [calls EXCEPT ![t].pc = "fit", ![t].courses = courses_cache]
            /\ skill_vectorizer' = [NoVectorizer EXCEPT !.is_none = FALSE]
            /\ UNCHANGED snapshot
    /\ UNCHANGED <<db, courses_cache, course_skill_matrix,
                   last_request, last_limit, all_scores, response, previous, rule_call, similarity_call>>

\* line 61, right-hand side: self.skill_vectorizer.fit_transform(docs) fits
\* the vectorizer the field holds now, or raises ValueError and ends the call
FitVectorizer(t) ==
    /\ calls[t].pc = "fit"
    /\ \E fit \in {IF calls[t].courses \in Catalogs THEN FitTable[calls[t].courses]
                   ELSE FitCourses(calls[t].courses)} :
           IF fit.raised # ""
           THEN /\ calls' = [calls EXCEPT ![t].pc = "done",
                                          ![t].result = Raised(fit.raised)]
                /\ UNCHANGED skill_vectorizer
                /\ snapshot' = NoSnapshot
           ELSE /\ calls' = [calls EXCEPT ![t].pc = "matrix", ![t].rows = fit.matrix]
                /\ skill_vectorizer' = [is_none |-> FALSE, fitted |-> TRUE,
                                        vocabulary |-> fit.vocabulary, idf |-> fit.idf]
                /\ UNCHANGED snapshot
    /\ UNCHANGED <<db, courses_cache, course_skill_matrix,
                   last_request, last_limit, all_scores, response, previous, rule_call, similarity_call>>

\* line 61, left-hand side: self.course_skill_matrix = ...; initialize()
\* returns
AssignMatrix(t) ==
    /\ calls[t].pc = "matrix"
    /\ course_skill_matrix' = [is_none |-> FALSE, rows |-> calls[t].rows]
    /\ snapshot' = [taken |-> TRUE, courses |-> courses_cache]
    /\ calls' = [calls EXCEPT ![t].pc = "ready"]
    /\ UNCHANGED <<db, courses_cache, skill_vectorizer,
                   last_request, last_limit, all_scores, response, previous, rule_call, similarity_call>>

\* line 77: the second `if not self.courses_cache`; else the loop of line 89
\* starts on the list the field holds now
EnterLoop(t) ==
    /\ calls[t].pc = "ready"
    /\ calls' = IF Len(courses_cache) = 0
                THEN [calls EXCEPT ![t].pc = "done", ![t].result = NoCoursesResponse]
                ELSE [calls EXCEPT ![t].pc = "loop", ![t].courses = courses_cache,
                                   ![t].scores = << >>]
    /\ UNCHANGED <<db, courses_cache, skill_vectorizer, course_skill_matrix,
                   last_request, last_limit, all_scores, response, previous, snapshot,
                   rule_call, similarity_call>>

\* lines 89-92: one turn of the loop, _calculate_course_score on the next
\* course with the vectorizer and the matrix the fields hold now
ScoreNextCourse(t) ==
    /\ calls[t].pc = "loop"
    /\ Len(calls[t].scores) < Len(calls[t].courses)
    /\ \E i \in {Len(calls[t].scores) + 1} :
       \E error \in {CalculateCourseScoreRaises(calls[t].courses[i], calls[t].request)} :
           calls' =
               IF error # ""
               THEN [calls EXCEPT ![t].pc = "done", ![t].result = Raised(error)]
               ELSE [calls EXCEPT ![t].scores =
                        Append(@, CalculateCourseScore(skill_vectorizer, course_skill_matrix,
                                                       calls[t].courses[i],
                                                       calls[t].request, i))]
    /\ UNCHANGED <<db, courses_cache, skill_vectorizer, course_skill_matrix,
                   last_request, last_limit, all_scores, response, previous, snapshot,
                   rule_call, similarity_call>>

\* lines 94-112: sort, cut, candidates, metadata, suggestions, return
RankAndReturn(t) ==
    /\ calls[t].pc = "loop"
    /\ Len(calls[t].scores) = Len(calls[t].courses)
    /\ calls' = [calls EXCEPT
                    ![t].pc = "done",
                    ![t].result = RankCourses(courses_cache, calls[t].scores,
                                              calls[t].request, DefaultLimit)]
    /\ UNCHANGED <<db, courses_cache, skill_vectorizer, course_skill_matrix,
                   last_request, last_limit, all_scores, response, previous, snapshot,
                   rule_call, similarity_call>>

NextThreads ==
    \/ InitializeFirst
    \/ \E course \in NewCourses : CreateCourseIdle(course)
    \/ \E course \in NewCourses : DeleteCourseIdle(course.id)
    \/ \E t \in Threads, req \in ThreadRequests : Accept(t, req)
    \/ \E t \in Threads : CheckCache(t)
    \/ \E t \in Threads : LoadCourses(t)
    \/ \E t \in Threads : BuildSkillVectors(t)
    \/ \E t \in Threads : FitVectorizer(t)
    \/ \E t \in Threads : AssignMatrix(t)
    \/ \E t \in Threads : EnterLoop(t)
    \/ \E t \in Threads : ScoreNextCourse(t)
    \/ \E t \in Threads : RankAndReturn(t)

SpecThreads == InitCatalog /\ [][NextThreads]_vars

(***************************************************************************)
(* Properties of get_recommendations, stated on the last call of the       *)
(* engine: its request and limit, the score data of its loop, and what it  *)
(* returned or raised.                                                     *)
(***************************************************************************)
\* a get_recommendations call has ended on this engine
Called == response.kind # "none"

\* it returned a RecommendationResponse
Returned == response.kind = "response"

\* the place of a course in the snapshot
CourseIndex(course) == CHOOSE i \in DOMAIN courses_cache : courses_cache[i] = course

\* the courses of the returned candidates
RecommendedCourses ==
    {response.recommendations[k].course : k \in DOMAIN response.recommendations}

\* C1: the total score of every course of the loop is
\* (content * (skill_weight + interest_weight) + location * location_weight
\*  + career * career_weight) * filter score, and the match score of every
\* returned candidate is that expression over the sub-scores the candidate
\* reports and the filter score of its course.
C1_TotalScoreFormula ==
    /\ \A i \in DOMAIN all_scores :
           all_scores[i].total_score =
               ( all_scores[i].content_score
                     * (last_request.skill_weight + last_request.interest_weight)
                 + all_scores[i].location_score * last_request.location_weight
                 + all_scores[i].career_score * last_request.career_weight )
               * all_scores[i].filter_score
    /\ \A k \in DOMAIN response.recommendations :
           LET m == response.recommendations[k]
           IN  /\ m.interest_match_score = m.skill_match_score
               /\ m.match_score =
                      ( m.skill_match_score
                            * (last_request.skill_weight + last_request.interest_weight)
                        + m.location_match_score * last_request.location_weight
                        + m.career_match_score * last_request.career_weight )
                      * all_scores[CourseIndex(m.course)].filter_score

\* a returned candidate with a content score above 0, a location score
\* between 0 and 1 and a filter score between 0 and 1
C1_Witness ==
    /\ Returned
    /\ \E k \in DOMAIN response.recommendations :
           LET m == response.recommendations[k]
           IN  /\ m.skill_match_score > 0
               /\ m.location_match_score \in 1..9
               /\ all_scores[CourseIndex(m.course)].filter_score \in 1..9

\* C2: when the request names a modality and a course's modality differs
\* from it, case aside, the course's filter score and total score are 0 and
\* the course is not among the returned candidates.
C2_ModalityMismatchExcludes ==
    \A i \in DOMAIN all_scores :
        ( /\ Truthy(last_request.modality)
          /\ Lower(all_scores[i].course.modality) # Lower(last_request.modality) )
        => /\ all_scores[i].filter_score = 0
           /\ all_scores[i].total_score = 0
           /\ all_scores[i].course \notin RecommendedCourses

\* a course of another modality whose content, location and career scores
\* are all above 0, in a call that returned some other course
C2_Witness ==
    /\ Returned
    /\ Len(response.recommendations) > 0
    /\ \E i \in DOMAIN all_scores :
           /\ Truthy(last_request.modality)
           /\ Lower(all_scores[i].course.modality) # Lower(last_request.modality)
           /\ all_scores[i].content_score > 0
           /\ all_scores[i].location_score > 0
           /\ all_scores[i].career_score > 0
           /\ last_request.skill_weight > 0

\* C3: total_matches counts exactly the courses whose total score is
\* strictly above 0.1; no returned candidate is at or below 0.1; every course
\* above 0.1 is returned when the limit allows; and a call whose courses are
\* all at or below 0.1 returns an empty response, it does not raise.
C3_CountedIffAboveThreshold ==
    /\ Returned =>
           /\ response.total_matches =
                  Cardinality({i \in DOMAIN all_scores :
                                  all_scores[i].total_score > MinimumThreshold})
           /\ \A i \in DOMAIN all_scores :
                  all_scores[i].course \in RecommendedCourses
                  => all_scores[i].total_score > MinimumThreshold
           /\ \A i \in DOMAIN all_scores :
                  ( /\ all_scores[i].total_score > MinimumThreshold
                    /\ last_limit >= response.total_matches )
                  => all_scores[i].course \in RecommendedCourses
    /\ ( /\ Called
         /\ Len(all_scores) > 0
         /\ \A i \in DOMAIN all_scores : all_scores[i].total_score <= MinimumThreshold )
       => /\ Returned
          /\ response.total_matches = 0
          /\ response.recommendations = << >>

\* a call that returned one course and dropped another whose total score is
\* exactly 0.1
C3_Witness ==
    /\ Returned
    /\ response.total_matches = 1
    /\ \E i, j \in DOMAIN all_scores :
           /\ all_scores[i].total_score = MinimumThreshold
           /\ all_scores[i].course \notin RecommendedCourses
           /\ all_scores[j].course \in RecommendedCourses

\* C4: the returned candidates are in descending order of match score.
C4_DescendingOrder ==
    \A i, j \in DOMAIN response.recommendations :
        i < j => response.recommendations[i].match_score
                     >= response.recommendations[j].match_score

\* two returned candidates of different score whose courses stand the other
\* way round in the snapshot
C4_Witness ==
    /\ Returned
    /\ \E i, j \in DOMAIN response.recommendations :
           /\ i < j
           /\ response.recommendations[i].match_score
                  > response.recommendations[j].match_score
           /\ CourseIndex(response.recommendations[i].course)
                  > CourseIndex(response.recommendations[j].course)

\* C5: returned candidates of equal score stand in snapshot order, and a
\* candidate above the threshold that ties with a returned one and stands
\* before it in the snapshot is returned too (the limit cuts ties off from
\* the back).
C5_StableTies ==
    Returned =>
        /\ \A i, j \in DOMAIN response.recommendations :
               ( /\ i < j
                 /\ response.recommendations[i].match_score
                        = response.recommendations[j].match_score )
               => CourseIndex(response.recommendations[i].course)
                      < CourseIndex(response.recommendations[j].course)
        /\ \A k \in DOMAIN response.recommendations : \A i \in DOMAIN all_scores :
               ( /\ all_scores[i].total_score = response.recommendations[k].match_score
                 /\ all_scores[i].total_score > MinimumThreshold
                 /\ i < CourseIndex(response.recommendations[k].course) )
               => all_scores[i].course \in RecommendedCourses

\* two courses tie above the threshold and the limit lets one of them through
C5_Witness ==
    /\ Returned
    /\ Len(response.recommendations) = 1
    /\ \E i, j \in DOMAIN all_scores :
           /\ i < j
           /\ all_scores[i].total_score = all_scores[j].total_score
           /\ all_scores[i].total_score > MinimumThreshold
           /\ response.recommendations[1].course = all_scores[i].course

\* the four weights of the request are 0
AllWeightsZero(r) ==
    /\ r.skill_weight = 0 /\ r.interest_weight = 0
    /\ r.location_weight = 0 /\ r.career_weight = 0

\* the request sets no filter: the language is absent or left at its default
NoFilterSet(r) ==
    /\ ~Truthy(r.location) /\ ~Truthy(r.modality) /\ ~Truthy(r.course_level)
    /\ ~TruthyNum(r.max_tuition) /\ ~TruthyNum(r.max_duration_months)
    /\ (~Truthy(r.language_of_instruction)
        \/ r.language_of_instruction = DefaultRequest.language_of_instruction)

\* C6: when the four weights are 0 and no filter is set, every course's
\* total score is 0; the call raises nothing once its loop has run, and what
\* it returns has no candidate and total_matches = 0.
C6_ZeroWeightsEmpty ==
    (Called /\ AllWeightsZero(last_request) /\ NoFilterSet(last_request))
    => /\ \A i \in DOMAIN all_scores : all_scores[i].total_score = 0
       /\ Len(all_scores) > 0 => Returned
       /\ Returned => /\ response.recommendations = << >>
                      /\ response.total_matches = 0

\* such a call over a course whose content, location and career scores are
\* all above 0
C6_Witness ==
    /\ Returned
    /\ AllWeightsZero(last_request)
    /\ NoFilterSet(last_request)
    /\ \E i \in DOMAIN all_scores :
           /\ all_scores[i].content_score > 0
           /\ all_scores[i].location_score > 0
           /\ all_scores[i].career_score > 0
           /\ all_scores[i].filter_score > 0

C8_Idempotent == previous.kind # "none" => response = previous

\* C9: over an empty catalog the call returns a response with
\* total_matches = 0, no candidate and at least one suggestion.
C9_EmptyCatalog ==
    (Called /\ Len(db) = 0)
    => /\ Returned
       /\ response.total_matches = 0
       /\ response.recommendations = << >>
       /\ Len(response.suggestions) > 0

\* a call has ended over an empty catalog
C9_Witness ==
    /\ Called
    /\ Len(db) = 0
    /\ Len(courses_cache) = 0
    /\ response.search_metadata.error = "No courses available"

\* C10: a call whose four weights each lie in [0, 1] returns a
\* RecommendationResponse; it never ends in an exception.
C10_NeverRaises ==
    ( /\ Called
      /\ ValidWeight(last_request.skill_weight)
      /\ ValidWeight(last_request.interest_weight)
      /\ ValidWeight(last_request.location_weight)
      /\ ValidWeight(last_request.career_weight) )
    => Returned

(***************************************************************************)
(* Properties of the engine on a changing catalog.                         *)
(***************************************************************************)
\* the courses the loop of the last call scored, in order
ScoredCourses == [i \in DOMAIN all_scores |-> all_scores[i].course]

\* C11: a get_recommendations call made after initialize() has returned on
\* the engine scores exactly the courses of the snapshot that initialize()
\* took, whatever courses were created or deleted since, an empty snapshot
\* included.
C11_SnapshotIsolation ==
    [][ \A req \in CatalogRequests :
            (snapshot.taken /\ GetRecommendations(req, DefaultLimit))
            => ScoredCourses' = snapshot.courses ]_vars

\* C20: a get_recommendations call made after initialize() has returned on
\* the engine leaves courses_cache, skill_vectorizer and
\* course_skill_matrix as they were, whatever the request, the snapshot (an
\* empty one included) and the courses table at the time of the call.
C20_ScoringWritesNoState ==
    [][ \A req \in CatalogRequests :
            (snapshot.taken /\ GetRecommendations(req, DefaultLimit))
            => UNCHANGED <<courses_cache, skill_vectorizer, course_skill_matrix>> ]_vars

(***************************************************************************)
(* Properties of the sub-scores, stated on the followed                    *)
(* _calculate_course_score call.                                           *)
(***************************************************************************)
\* a string that is not None, a number that is not None
Specified(value) == value # NoneStr

SpecifiedNum(value) == value # NoneNum

\* the rules of the filter score, as the specification words them
ModalityViolated(course, request) ==
    /\ Specified(request.modality)
    /\ Lower(course.modality) # Lower(request.modality)

LanguageViolated(course, request) ==
    /\ Specified(request.language_of_instruction)
    /\ Lower(course.language_of_instruction) # Lower(request.language_of_instruction)

TuitionViolated(course, request) ==
    /\ SpecifiedNum(request.max_tuition)
    /\ SpecifiedNum(course.tuition_fee)
    /\ course.tuition_fee > request.max_tuition

DurationViolated(course, request) ==
    /\ SpecifiedNum(request.max_duration_months)
    /\ SpecifiedNum(course.duration_months)
    /\ course.duration_months > request.max_duration_months

LevelViolated(course, request) ==
    /\ Specified(request.course_level)
    /\ Specified(course.course_level)
    /\ Lower(course.course_level) # Lower(request.course_level)

\* the penalty of the first violated rule, in tenths; 10 when none is violated
FirstViolatedPenalty(course, request) ==
    IF ModalityViolated(course, request) THEN 0
    ELSE IF LanguageViolated(course, request) THEN 1
    ELSE IF TuitionViolated(course, request) THEN 2
    ELSE IF DurationViolated(course, request) THEN 3
    ELSE IF LevelViolated(course, request) THEN 5
    ELSE 10

C14_TuitionRule ==
    rule_call.returned =>
        /\ ( /\ TuitionViolated(rule_call.course, rule_call.request)
             /\ ~ModalityViolated(rule_call.course, rule_call.request)
             /\ ~LanguageViolated(rule_call.course, rule_call.request) )
           => rule_call.score_data.filter_score = 2
        /\ ~TuitionViolated(rule_call.course, rule_call.request)
           => rule_call.score_data.filter_score # 2

\* the cases of the location score, as the specification words them
IsOnline(course) == Lower(course.modality) = <<"o","n","l","i","n","e">>

CityMatch(course, request) ==
    /\ Specified(course.location_city)
    /\ Contains(Lower(course.location_city), Lower(request.location))

CountryMatch(course, request) ==
    /\ Specified(course.location_country)
    /\ Contains(Lower(course.location_country), Lower(request.location))

\* C15: the location score is 1.0 when the request names no location;
\* otherwise 1.0 for an online course; otherwise 1.0 when the location is in
\* the course's city, case aside; otherwise 0.7 when it is in the course's
\* country; otherwise 0.1. A course with no city or no country does not match
\* on it, and no other value is returned.
C15_LocationScore ==
    rule_call.returned =>
        LET course == rule_call.course
            request == rule_call.request
            location_score == rule_call.score_data.location_score
        IN  /\ location_score \in {1, 7, 10}
            /\ ~Specified(request.location) => location_score = 10
            /\ Specified(request.location) =>
                   /\ IsOnline(course) => location_score = 10
                   /\ (~IsOnline(course) /\ CityMatch(course, request))
                      => location_score = 10
                   /\ ( /\ ~IsOnline(course) /\ ~CityMatch(course, request)
                        /\ CountryMatch(course, request) )
                      => location_score = 7
                   /\ ( /\ ~IsOnline(course) /\ ~CityMatch(course, request)
                        /\ ~CountryMatch(course, request) )
                      => location_score = 1

\* an in-person course with no city whose country holds the requested
\* location, scored 0.7
C15_Witness ==
    /\ rule_call.returned
    /\ Specified(rule_call.request.location)
    /\ ~IsOnline(rule_call.course)
    /\ ~Specified(rule_call.course.location_city)
    /\ CountryMatch(rule_call.course, rule_call.request)
    /\ rule_call.score_data.location_score = 7

\* the goal text of the request is in the title of outcome i, or in its
\* description, case aside
GoalInTitle(course, request, i) ==
    Contains(Lower(course.career_outcomes[i].title), Lower(request.career_goals))

GoalInOutcomeDescription(course, request, i) ==
    /\ Specified(course.career_outcomes[i].description)
    /\ Contains(Lower(course.career_outcomes[i].description), Lower(request.career_goals))

GoalInCourseDescription(course, request) ==
    /\ Specified(course.description)
    /\ Contains(Lower(course.description), Lower(request.career_goals))

\* C16: the career score is 1.0 when the request has no career goals;
\* otherwise 1.0 when the goal text is in the title of any career outcome of
\* the course, whatever the order of the outcomes and whatever their
\* descriptions hold; otherwise 0.8 when it is in the description of any
\* outcome; otherwise 0.6 when it is in the course description; otherwise 0.3.
C16_CareerScore ==
    rule_call.returned =>
        LET course == rule_call.course
            request == rule_call.request
            career_score == rule_call.score_data.career_score
            anyTitle == \E i \in DOMAIN course.career_outcomes :
                            GoalInTitle(course, request, i)
            anyDescription == \E i \in DOMAIN course.career_outcomes :
                                  GoalInOutcomeDescription(course, request, i)
        IN  IF ~Specified(request.career_goals) THEN career_score = 10
            ELSE IF anyTitle THEN career_score = 10
            ELSE IF anyDescription THEN career_score = 8
            ELSE IF GoalInCourseDescription(course, request) THEN career_score = 6
            ELSE career_score = 3

\* the request as RecommendationRequest fills it when the caller sets none of
\* location, modality, language_of_instruction, max_tuition,
\* max_duration_months and course_level
FiltersUnset(request) ==
    /\ request.location = DefaultRequest.location
    /\ request.modality = DefaultRequest.modality
    /\ request.language_of_instruction = DefaultRequest.language_of_instruction
    /\ request.max_tuition = DefaultRequest.max_tuition
    /\ request.max_duration_months = DefaultRequest.max_duration_months
    /\ request.course_level = DefaultRequest.course_level

\* C17: for a request that leaves every optional filter field unset, the
\* filter score and the location score of every course are 1.0, whatever the
\* course's language, modality, tuition, duration and level.
C17_UnsetFiltersNoPenalty ==
    (rule_call.returned /\ FiltersUnset(rule_call.request))
    => /\ rule_call.score_data.filter_score = 10
       /\ rule_call.score_data.location_score = 10

(***************************************************************************)
(* Properties of the truncation to the limit.                              *)
(***************************************************************************)
\* the places in the loop of the courses whose total score is above 0.1
AboveThresholdPlaces ==
    {i \in DOMAIN all_scores : all_scores[i].total_score > MinimumThreshold}

\* C18: a call with a limit of 0 or more that returns a response returns
\* min(limit, total_matches) candidates; total_matches is the number of
\* courses above the threshold, counted before the cut; and every returned
\* candidate's score is at least the score of every course above the
\* threshold that is not returned.
C18_Truncation ==
    (Returned /\ last_limit >= 0) =>
        /\ response.total_matches = Cardinality(AboveThresholdPlaces)
        /\ Len(response.recommendations) =
               (IF last_limit < response.total_matches
                THEN last_limit ELSE response.total_matches)
        /\ \A k \in DOMAIN response.recommendations :
               \A i \in AboveThresholdPlaces :
                   all_scores[i].course \notin RecommendedCourses
                   => response.recommendations[k].match_score >= all_scores[i].total_score

\* a call whose limit is above 0 and below the number of matches: a course
\* above the threshold, of a lower score than a returned one, is cut
C18_Witness ==
    /\ Returned
    /\ last_limit > 0
    /\ last_limit < response.total_matches
    /\ \E i \in AboveThresholdPlaces :
           /\ all_scores[i].course \notin RecommendedCourses
           /\ all_scores[i].total_score < response.recommendations[1].match_score

(***************************************************************************)
(* Properties of the scoring loop when a sub-score raises.                 *)
(***************************************************************************)
\* the places in the snapshot of the courses on which a sub-score of the
\* last request raises
RaisingPlaces ==
    {i \in DOMAIN courses_cache :
        CalculateCourseScoreRaises(courses_cache[i], last_request) # ""}

C12_CallsDoNotInterfere ==
    \A t \in Threads : calls[t].pc = "done" => calls[t].result = calls[t].alone

(***************************************************************************)
(* One _calculate_content_similarity call on an engine whose catalog is    *)
(* written and whose initialize() is called between the calls.             *)
(***************************************************************************)
\* the positions a call is made with: every row of the largest index and one
\* past its end (the code counts them from 0, the model from 1)
Positions == 1..(MaxCourses + 1)

\* the requests whose user query the calls are made with
SimilarityRequests ==
    { Query(DefaultWeights, NoText, NoFilters),
      Query(DefaultWeights, PythonText, NoFilters),
      Query(DefaultWeights, DataText, NoFilters) }

\* self._calculate_content_similarity(user_query, course_index), with the
\* fields of the engine the call read
CalculateContentSimilarityCall(request, course_index) ==
    /\ \E error \in {CalculateContentSimilarityRaises(skill_vectorizer, course_skill_matrix,
                                                      request, course_index)} :
           similarity_call' =
               [request |-> request, course_index |-> course_index,
                skill_vectorizer |-> skill_vectorizer,
                course_skill_matrix |-> course_skill_matrix,
                returned |-> error = "", raised |-> error,
                value |-> IF error # "" THEN 0
                          ELSE CalculateContentSimilarity(skill_vectorizer, course_skill_matrix,
                                                          request, course_index)]
    /\ UNCHANGED <<db, courses_cache, skill_vectorizer, course_skill_matrix,
                   last_request, last_limit, all_scores, response, previous, snapshot,
                   rule_call, calls>>

NextSimilarity ==
    \/ \E course \in NewCourses : CreateCourse(course)
    \/ \E course_id \in {course.id : course \in NewCourses} : DeleteCourse(course_id)
    \/ Initialize
    \/ \E request \in SimilarityRequests, course_index \in Positions :
           CalculateContentSimilarityCall(request, course_index)

SpecSimilarity == InitCatalog /\ [][NextSimilarity]_vars

\* a _calculate_content_similarity call has ended
SimilarityCalled == similarity_call.returned \/ similarity_call.raised # ""

\* the user query of the call is the empty string
SimilarityQueryEmpty == Len(BuildUserQuery(similarity_call.request)) = 0

\* the computation of the call failed: no usable vectorizer, or no row at the
\* position of the call
SimilarityFailed ==
    \/ similarity_call.skill_vectorizer.is_none
    \/ ~similarity_call.skill_vectorizer.fitted
    \/ similarity_call.course_index > Len(similarity_call.course_skill_matrix.rows)

WebText == [skills |-> <<<<"J","S">>>>, interests |-> <<<<"w","e","b"," ","d","e","v">>>>, career_goals |-> NoneStr]

\* the same text as one interest: no skill is given
WebInterestText == [skills |-> << >>, interests |-> <<<<"j","s"," ","w","e","b"," ","d","e","v">>>>, career_goals |-> NoneStr]

\* a career goal that no course of the model mentions
NurseText == [skills |-> << >>, interests |-> << >>, career_goals |-> <<"n","u","r","s","e">>]

GermanyFilter == [NoFilters EXCEPT !.location = <<"G","e","r","m","a","n","y">>]

ExplainRequests ==
    { Query(DefaultWeights, NoText, NoFilters),
      Query(DefaultWeights, DataText, NoFilters),
      Query(DefaultWeights, WebText, NoFilters),
      Query(DefaultWeights, WebInterestText, NoFilters),
      Query(DefaultWeights, NurseText, GermanyFilter) }

NextExplain ==
    \/ NewEngine
    \/ \E req \in ExplainRequests : GetRecommendations(req, DefaultLimit)

SpecExplain == Init /\ [][NextExplain]_vars

\* the four notes of an explanation, in the order of the code
ExplanationNotes ==
    << "Matches n of your skills", "Good location match",
       "Aligns with your career goals", "Strong content relevance" >>

\* whether note k applies to the candidate m
NoteApplies(m, k) ==
    CASE k = 1 -> m.skill_matches # {}
      [] k = 2 -> m.location_match_score > 8
      [] k = 3 -> m.career_match_score > 8
      [] k = 4 -> m.skill_match_score > 7

\* the sentences of the explanation of the candidate m
Sentences(m) == m.match_explanation.sentences

\* where the note k stands in the explanation of m: after the notes before
\* it that apply
NotePlace(m, k) == 1 + Cardinality({j \in 1..(k - 1) : NoteApplies(m, j)})

\* C22: the explanation of every returned candidate is, in this order, the
\* skill-match summary iff a skill matched, the location note iff the location
\* score is above 0.8, the career note iff the career score is above 0.8 and
\* the content note iff the content score is above 0.7; it is the generic
\* statement iff none of the four applies, and it is never empty.
C22_Explanation ==
    Returned =>
        \A i \in DOMAIN response.recommendations :
            LET m == response.recommendations[i]
                applying == {k \in 1..4 : NoteApplies(m, k)}
            IN  /\ Len(Sentences(m)) > 0
                /\ applying # {} =>
                       /\ Len(Sentences(m)) = Cardinality(applying)
                       /\ \A k \in applying : Sentences(m)[NotePlace(m, k)] = ExplanationNotes[k]
                /\ applying = {} <=>
                       Sentences(m) = <<"General compatibility based on your preferences">>
                /\ m.skill_matches # {} =>
                       /\ m.match_explanation.skills_count = Cardinality(m.skill_matches)
                       /\ m.match_explanation.skills_named \subseteq m.skill_matches

\* a returned candidate whose explanation holds all four notes, in order
C22_Witness ==
    /\ Returned
    /\ \E i \in DOMAIN response.recommendations :
           /\ \A k \in 1..4 : NoteApplies(response.recommendations[i], k)
           /\ Sentences(response.recommendations[i]) = ExplanationNotes

(***************************************************************************)
(* Properties of the search metadata.                                      *)
(***************************************************************************)
\* the sum of the total scores of the courses above the threshold
AboveThresholdSum ==
    LET sum[k \in 0..Len(all_scores)] ==
            IF k = 0 THEN 0
            ELSE sum[k - 1] + (IF k \in AboveThresholdPlaces
                               THEN all_scores[k].total_score ELSE 0)
    IN  sum[Len(all_scores)]

\* C23: the search metadata of a ranking over a non-empty snapshot holds the
\* number of courses of the snapshot, the numbers of skill and interest terms
\* of the query, and as average_match_score the mean total score of all the
\* courses above the threshold, returned or cut by the limit, 0 when there
\* is none (the mean is kept in 1/10000, rounded down).
C23_SearchMetadata ==
    (Returned /\ Len(courses_cache) > 0) =>
        LET metadata == response.search_metadata
            n == Cardinality(AboveThresholdPlaces)
        IN  /\ metadata.error = ""
            /\ metadata.total_courses_analyzed = Len(courses_cache)
            /\ metadata.query_skills_count = Len(last_request.skills)
            /\ metadata.query_interests_count = Len(last_request.interests)
            /\ n = 0 => metadata.average_match_score = 0
            /\ n > 0 => /\ metadata.average_match_score * n <= AboveThresholdSum
                        /\ AboveThresholdSum < (metadata.average_match_score + 1) * n

\* a ranking whose limit cut a course above the threshold: the average lies
\* below the score of the only returned candidate
C23_Witness ==
    /\ Returned
    /\ Len(response.recommendations) = 1
    /\ response.total_matches = 2
    /\ Len(last_request.skills) > 0
    /\ response.search_metadata.total_courses_analyzed = 2
    /\ response.search_metadata.average_match_score
           < response.recommendations[1].match_score

\* the flag of a filter in filters_applied: present and true
FilterFlag(key) ==
    /\ key \in DOMAIN response.search_metadata.filters_applied
    /\ response.search_metadata.filters_applied[key]

\* C24: filters_applied of a ranking over a non-empty snapshot carries, for
\* each of the six optional filters of the query (location, modality,
\* language, maximum tuition, maximum duration, course level), a flag that is
\* true iff the query specified that filter, a tuition ceiling of 0 included.
C24_FiltersApplied ==
    (Returned /\ Len(courses_cache) > 0) =>
        /\ FilterFlag("location") <=> Specified(last_request.location)
        /\ FilterFlag("modality") <=> Specified(last_request.modality)
        /\ FilterFlag("language_of_instruction")
               <=> Specified(last_request.language_of_instruction)
        /\ FilterFlag("max_tuition") <=> SpecifiedNum(last_request.max_tuition)
        /\ FilterFlag("max_duration_months")
               <=> SpecifiedNum(last_request.max_duration_months)
        /\ FilterFlag("course_level") <=> Specified(last_request.course_level)

(***************************************************************************)
(* Properties of the suggestions.                                          *)
(***************************************************************************)
\* the suggestions in the order of the code, each under its condition
SuggestionsWhen(few, no_skills, low_budget, low_mean) ==
    (IF few THEN <<"Try expanding your location preferences or considering online courses">>
     ELSE << >>)
    \o (IF no_skills THEN <<"Add specific skills to get more targeted recommendations">>
        ELSE << >>)
    \o (IF low_budget
        THEN <<"Consider increasing your budget or looking for scholarship opportunities">>
        ELSE << >>)
    \o (IF low_mean
        THEN <<"Your criteria might be too specific. Try broadening your preferences">>
        ELSE << >>)

\* C25: the suggestions of a ranking over a non-empty snapshot are, in this
\* order and each independently of the others: broaden the location iff fewer
\* than 5 courses are above the threshold; add skills iff the query has no
\* skill; reconsider the budget iff a tuition ceiling is set and is below
\* 10000; broaden the criteria iff there is a match and the mean total score
\* of the matches is below 0.3.
C25_Suggestions ==
    (Returned /\ Len(courses_cache) > 0) =>
        response.suggestions =
               SuggestionsWhen(
                   Cardinality(AboveThresholdPlaces) < 5,
                   Len(last_request.skills) = 0,
                   SpecifiedNum(last_request.max_tuition) /\ last_request.max_tuition < 10000,
                   /\ Cardinality(AboveThresholdPlaces) > 0
                   /\ AboveThresholdSum < 3000 * Cardinality(AboveThresholdPlaces))

(***************************************************************************)
(* Properties of the skill-match extraction.                               *)
(***************************************************************************)
\* the user skill term u and the skill tag t match: one is a substring of
\* the other, whatever the case
TermMatchesTag(u, t) ==
    \/ Contains(Lower(t), Lower(u))
    \/ Contains(Lower(u), Lower(t))

\* the skill tags of the course that some user skill term of the request
\* matches, in the spelling _find_skill_matches gives them (str.title of the
\* lower-cased tag)
MatchedTags(course, request) ==
    { Title(Lower(course.skills[i].name)) :
        i \in { j \in DOMAIN course.skills :
                  \E k \in DOMAIN request.skills :
                      TermMatchesTag(request.skills[k], course.skills[j].name) } }

\* C26: the matched-skill list of a candidate has no duplicates and is exactly
\* the set of the course's skill tags that some user skill term matches (one
\* a case-insensitive substring of the other); a user term that matches
\* several tags contributes all of them.
C26_SkillMatches ==
    rule_call.returned =>
        rule_call.score_data.skill_matches
            = MatchedTags(rule_call.course, rule_call.request)

(***************************************************************************)
(* Two get_recommendations calls that start together on an engine that was *)
(* never initialized, over a catalog that is not empty.                    *)
(***************************************************************************)
\* CourseRecommendationEngine(db) has run over a catalog that is not empty,
\* initialize() was never called, and both threads have entered
\* get_recommendations(req, 20). `alone` is what one such call returns or raises
\* on this engine when no other call runs on it.
InitLazy ==
    /\ db \in {catalog \in Catalogs : Len(catalog) > 0}
    /\ courses_cache = << >>
    /\ skill_vectorizer = NoVectorizer
    /\ course_skill_matrix = NoMatrix
    /\ last_request = DefaultRequest
    /\ last_limit = DefaultLimit
    /\ all_scores = << >>
    /\ response = NoResponse
    /\ previous = NoResponse
    /\ snapshot = NoSnapshot
    /\ rule_call = NoRuleCall
    /\ similarity_call = NoSimilarityCall
    /\ \E req \in ThreadRequests :
       \E init \in {InitializeResult(db, NoVectorizer, NoMatrix)} :
       \E scored \in {IF init.raised # "" THEN << >>
                      ELSE ScoredBeforeRaise(init.courses_cache, req)} :
       \E scores \in {AllCourseScores(scored, init.skill_vectorizer,
                                       init.course_skill_matrix, req)} :
           calls = [t \in Threads |->
                       [IdleCall EXCEPT
                           !.pc = "check",
                           !.request = req,
                           !.alone =
                               IF init.raised # "" THEN Raised(init.raised)
                               ELSE IF Len(scored) < Len(init.courses_cache)
                               THEN Raised(CalculateCourseScoreRaises(
                                               init.courses_cache[Len(scored) + 1], req))
                               ELSE RankCourses(init.courses_cache, scores, req,
                                                DefaultLimit)]]

NextLazy ==
    \/ \E t \in Threads : CheckCache(t)
    \/ \E t \in Threads : LoadCourses(t)
    \/ \E t \in Threads : BuildSkillVectors(t)
    \/ \E t \in Threads : FitVectorizer(t)
    \/ \E t \in Threads : AssignMatrix(t)
    \/ \E t \in Threads : EnterLoop(t)
    \/ \E t \in Threads : ScoreNextCourse(t)
    \/ \E t \in Threads : RankAndReturn(t)

SpecLazy == InitLazy /\ [][NextLazy]_vars

\* thread t is in the scoring loop, with a course still to score
Scoring(t) ==
    /\ calls[t].pc = "loop"
    /\ Len(calls[t].scores) < Len(calls[t].courses)

\* C28: when two get_recommendations calls start together on an engine that
\* was never initialized, over a catalog that is not empty, no call scores a
\* course while course_skill_matrix is still unbuilt, and each call ends in
\* the response a single call would end in.
C28_LazyInitRaceFree ==
    \A t \in Threads :
        /\ Scoring(t) => ~course_skill_matrix.is_none
        /\ calls[t].pc = "done" => calls[t].result = calls[t].alone

(***************************************************************************)
(* Properties of the similarity index.                                     *)
(***************************************************************************)
\* the fit of the index on the snapshot the engine holds
CacheFit == IF courses_cache \in Catalogs THEN FitTable[courses_cache]
            ELSE FitCourses(courses_cache)

\* C27: after any sequence of initialize() and get_recommendations() calls on
\* one engine, each run to its end (calls in which building the index raises
\* included), a courses_cache that is not empty comes with an index built from
\* that snapshot: a fitted vectorizer and a matrix of one row per course, in
\* snapshot order; and no call has scored a course without it.
C27_IndexMatchesCache ==
    Len(courses_cache) > 0 =>
        /\ ~course_skill_matrix.is_none
        /\ skill_vectorizer.fitted
        /\ CacheFit.raised = ""
        /\ course_skill_matrix.rows = CacheFit.matrix
        /\ skill_vectorizer.vocabulary = CacheFit.vocabulary

(***************************************************************************)
(* The HTTP endpoints: catalog writes (api/v1/endpoints/courses.py) and    *)
(* recommendation requests (api/v1/endpoints/recommendations.py). A        *)
(* handler has no await between its reads and writes of the database, so   *)
(* it runs as one step. The engine fields hold the engine of the last      *)
(* recommendation request.                                                 *)
(***************************************************************************)
\* a faulty endpoint: one engine kept by the module and used by every request
EndpointEngineShared ==
    [courses_cache |-> courses_cache, skill_vectorizer |-> skill_vectorizer,
     course_skill_matrix |-> course_skill_matrix]

\* engine = CourseRecommendationEngine(db), in the handler: a new engine
EndpointEngine ==
    [courses_cache |-> << >>, skill_vectorizer |-> NoVectorizer,
     course_skill_matrix |-> NoMatrix]

\* the files upload_courses_csv is called with: the courses of their rows
CsvFiles == { <<CourseAI, CourseC>>, <<CourseC>> }

\* update_course: setattr of the given fields on the course of that id, commit
UpdateCourse(course_id, course_update) ==
    /\ \E i \in DOMAIN db :
           /\ db[i].id = course_id
           /\ db[i].description # course_update.description
           /\ db' = [db EXCEPT ![i].description = course_update.description]
    /\ UNCHANGED <<courses_cache, skill_vectorizer, course_skill_matrix,
                   last_request, last_limit, all_scores, response, previous, snapshot,
                   rule_call, similarity_call, calls>>

\* upload_courses_csv: one course per row, added to the session in file
\* order, and one commit after the last row
UploadCoursesCsv(rows) ==
    /\ Len(db) + Len(rows) <= MaxCourses
    /\ \A i \in DOMAIN db, k \in DOMAIN rows : db[i].id # rows[k].id
    /\ db' = db \o rows
    /\ UNCHANGED <<courses_cache, skill_vectorizer, course_skill_matrix,
                   last_request, last_limit, all_scores, response, previous, snapshot,
                   rule_call, similarity_call, calls>>

\* get_course_recommendations, POST /recommend: a new engine on the session
\* of the request, then engine.get_recommendations(request, limit=limit); an
\* exception becomes the HTTP 500 response. export_recommendations_pdf, POST
\* /recommend/export, makes the same two calls (lines 72-73) and renders the
\* response as a PDF; this action is the engine part of both handlers.
GetCourseRecommendations(req, lim) ==
    \E engine \in {EndpointEngine} :
    \E init \in {IF Len(engine.courses_cache) = 0
                 THEN InitializeResult(db, engine.skill_vectorizer, engine.course_skill_matrix)
                 ELSE [courses_cache |-> engine.courses_cache,
                       skill_vectorizer |-> engine.skill_vectorizer,
                       course_skill_matrix |-> engine.course_skill_matrix, raised |-> ""]} :
    \E scored \in {IF init.raised # "" THEN << >>
                   ELSE ScoredBeforeRaise(init.courses_cache, req)} :
    \E scores \in {AllCourseScores(scored, init.skill_vectorizer,
                                    init.course_skill_matrix, req)} :
        /\ courses_cache' = init.courses_cache
        /\ skill_vectorizer' = init.skill_vectorizer
        /\ course_skill_matrix' = init.course_skill_matrix
        /\ last_request' = req
        /\ last_limit' = lim
        /\ all_scores' = scores
        /\ response' = IF init.raised # "" THEN Raised(init.raised)
                       ELSE IF Len(scored) < Len(init.courses_cache)
                       THEN Raised(CalculateCourseScoreRaises(
                                       init.courses_cache[Len(scored) + 1], req))
                       ELSE RankCourses(init.courses_cache, scores, req, lim)
        /\ previous' = IF response.kind # "none" /\ req = last_request /\ lim = last_limit
                       THEN response ELSE NoResponse
        /\ snapshot' = IF Len(engine.courses_cache) # 0 THEN snapshot
                       ELSE IF init.raised = ""
                       THEN [taken |-> TRUE, courses |-> init.courses_cache]
                       ELSE NoSnapshot
        /\ UNCHANGED <<db, rule_call, similarity_call, calls>>

\* the requests sent to the two endpoints
EndpointRequests ==
    { Query(DefaultWeights, DataText, NoFilters),
      Query(DefaultWeights, NoText, EnglishFilter) }

NextEndpoints ==
    \/ \E course \in NewCourses : CreateCourse(course)
    \/ \E course \in NewCourses, course_update \in CourseUpdates :
           UpdateCourse(course.id, course_update)
    \/ \E course \in NewCourses : DeleteCourse(course.id)
    \/ \E rows \in CsvFiles : UploadCoursesCsv(rows)
    \/ \E req \in EndpointRequests : GetCourseRecommendations(req, DefaultLimit)

SpecEndpoints == InitCatalog /\ [][NextEndpoints]_vars

\* C30: in any sequence of catalog writes (create, update, delete, CSV
\* upload) and requests to /recommend and /recommend/export, the engine of
\* each request loads the catalog as committed at the time of the request: a
\* request that returns a ranking has scored exactly the current courses, in
\* their current state, and reports their number as total_courses_analyzed;
\* a request on an empty catalog returns the empty-catalog response. No
\* request is scored against the snapshot of an earlier one.
C30_RequestSeesCurrentCatalog ==
    [][ \A req \in EndpointRequests :
            GetCourseRecommendations(req, DefaultLimit) =>
                /\ courses_cache' = db
                /\ (response'.kind = "response" /\ Len(db) > 0) =>
                       /\ ScoredCourses' = db
                       /\ response'.search_metadata.total_courses_analyzed = Len(db)
                /\ (response'.kind = "response" /\ Len(db) = 0) =>
                       response' = NoCoursesResponse ]_vars

\* two requests with the same query and limit, with catalog writes between
\* them: the later one analysed the two courses of the catalog as it is now,
\* the earlier one another number
C30_Witness ==
    /\ Returned
    /\ previous.kind = "response"
    /\ Len(db) = 2
    /\ courses_cache = db
    /\ response.search_metadata.total_courses_analyzed = 2
    /\ previous.search_metadata.total_courses_analyzed # 2

(***************************************************************************)
(* The weighted total in the arithmetic Python computes it in: IEEE 754    *)
(* binary64, round to nearest, ties to even.  A double x >= 0 is the set   *)
(* of the exponents e of the powers 2^e whose sum is x; 0.0 is {}.         *)
(***************************************************************************)
\* the bits of the significand of a double
Precision == 53

MaxOf(S) == CHOOSE e \in S : \A f \in S : f <= e

MinOf(S) == CHOOSE e \in S : \A f \in S : e <= f

Bit(S, e) == IF e \in S THEN 1 ELSE 0

\* the carry into place e of the sum A + B: a place below e holds a bit of
\* both, and every place between holds a bit of one
Carry(A, B, e) ==
    \E j \in A \cap B :
        /\ j < e
        /\ \A k \in (j + 1)..(e - 1) : k \in A \/ k \in B

Lowest(A, B) == IF MinOf(A) < MinOf(B) THEN MinOf(A) ELSE MinOf(B)

Highest(A, B) == IF MaxOf(A) > MaxOf(B) THEN MaxOf(A) ELSE MaxOf(B)

\* A + B, not rounded
ExactAdd(A, B) ==
    IF A = {} THEN B
    ELSE IF B = {} THEN A
    ELSE {e \in Lowest(A, B)..(Highest(A, B) + 1) :
             (Bit(A, e) + Bit(B, e) + (IF Carry(A, B, e) THEN 1 ELSE 0)) % 2 = 1}

\* S * 2^k
Shift(S, k) == {e + k : e \in S}

\* A * B, not rounded: one shifted copy of A for every bit of B
RECURSIVE ExactMul(_, _)
ExactMul(A, B) ==
    IF A = {} \/ B = {} THEN {}
    ELSE IF Cardinality(B) > Cardinality(A) THEN ExactMul(B, A)
    ELSE ExactAdd(Shift(A, MaxOf(B)), ExactMul(A, B \ {MaxOf(B)}))

\* the double nearest to S + t, 0 <= t < 2^MinOf(S), sticky telling t > 0:
\* Precision bits are kept, and the rest rounds up when it is more than half
\* of the last kept place, or half of it and the last kept bit is odd
Round(S, sticky) ==
    IF S = {} THEN {}
    ELSE LET unit == MaxOf(S) - (Precision - 1)
             kept == {e \in S : e >= unit}
             rest == {e \in S : e < unit}
             up == /\ (unit - 1) \in rest
                   /\ (rest # {unit - 1} \/ sticky \/ unit \in S)
         IN  IF up THEN ExactAdd(kept, {unit}) ELSE kept

\* float.__add__
FloatAdd(A, B) == Round(ExactAdd(A, B), FALSE)

\* float.__mul__
FloatMul(A, B) == Round(ExactMul(A, B), FALSE)

\* float.__gt__: the highest place where A and B differ holds a bit of A
FloatGreater(A, B) ==
    /\ A # B
    /\ MaxOf((A \ B) \cup (B \ A)) \in A

\* the places after the binary point that the division h / 100 is carried to
\* before it is rounded
DivisionBits == 64

\* the double that the decimal literal h / 100 denotes, 0 <= h <= 100, as
\* the parser of the source and the parser of the request body read it: the
\* long division of h by 100 in base 2, rounded
FloatOfHundredths(h) ==
    LET remainder[k \in 0..DivisionBits] ==
            IF k = 0 THEN h % 100 ELSE (2 * remainder[k - 1]) % 100
        fraction == {0 - k : k \in {i \in 1..DivisionBits : 2 * remainder[i - 1] >= 100}}
        whole == {e \in {0} : h \div 100 = 1}
    IN  Round(whole \cup fraction, remainder[DivisionBits] # 0)

\* the double of a sub-score that the model counts in tenths.  The location,
\* career and filter scores are decimal literals of the source; the content
\* score is float(similarity), which this gives exactly for 0.0 and 1.0
FloatOfTenths(s) == FloatOfHundredths(10 * s)

\* the weighted total of _calculate_course_score as a double, evaluated in
\* the order Python evaluates it; the sub-scores are given in tenths, the
\* weights of the request in hundredths
TotalScoreDouble(content_score, location_score, career_score, filter_score, request) ==
    FloatMul(
        FloatAdd(
            FloatAdd(
                FloatMul(FloatOfTenths(content_score),
                         FloatAdd(FloatOfHundredths(request.skill_weight),
                                  FloatOfHundredths(request.interest_weight))),
                FloatMul(FloatOfTenths(location_score),
                         FloatOfHundredths(request.location_weight))),
            FloatMul(FloatOfTenths(career_score),
                     FloatOfHundredths(request.career_weight))),
        FloatOfTenths(filter_score))

\* _calculate_course_score with total_score as the double Python computes
CalculateCourseScoreDouble(vectorizer, matrix, course, request, course_index) ==
    \* the sub-scores are those of CalculateCourseScore
    LET score_data == CalculateCourseScore(vectorizer, matrix, course, request, course_index)
    IN  [score_data EXCEPT
            !.total_score = TotalScoreDouble(score_data.content_score, score_data.location_score,
                                             score_data.career_score, score_data.filter_score,
                                             request)]

\* score_data['total_score'] > 0.1 on doubles
AboveThresholdDouble(s) == FloatGreater(s.total_score, FloatOfHundredths(10))

(***************************************************************************)
(* One _calculate_course_score call on an engine whose catalog is one      *)
(* course with a one-term document, so that the cosine similarity of a     *)
(* query is 0.0 or 1.0 exactly.                                            *)
(***************************************************************************)
\* a course whose document is the term "python", taught in French
CoursePythonFrench ==
    [id |-> 7, name |-> <<"P","y","t","h","o","n">>, description |-> NoneStr,
     location_city |-> NoneStr, location_country |-> NoneStr,
     language_of_instruction |-> <<"F","r","e","n","c","h">>, modality |-> <<"o","n","l","i","n","e">>,
     duration_months |-> NoneNum, tuition_fee |-> NoneNum, course_level |-> NoneStr,
     entry_requirements |-> NoneStr,
     skills |-> << >>,
     career_outcomes |-> << >>]

\* the same course taught in English
CoursePythonEnglish ==
    [CoursePythonFrench EXCEPT !.id = 8, !.language_of_instruction = <<"E","n","g","l","i","s","h">>]

DoubleCatalogs == { <<CoursePythonFrench>>, <<CoursePythonEnglish>> }

\* the values a weight of a request takes, in hundredths
WeightGrid == {10, 20, 30, 40}

\* the sum of the four weights as the request body writes them, in hundredths
WeightSum(request) ==
    request.skill_weight + request.interest_weight
    + request.location_weight + request.career_weight

\* the weightings over the grid that sum to at most 1, the defaults, and all
\* weights 1
DoubleWeightings ==
    { w \in WeightGrid \X WeightGrid \X WeightGrid \X WeightGrid :
          w[1] + w[2] + w[3] + w[4] <= 100 }
    \cup { DefaultWeights, FullWeights }

\* requests for the language English, with and without a skill
DoubleRequests ==
    { Query(w, t, EnglishFilter) : w \in DoubleWeightings, t \in {NoText, PythonText} }

\* CourseRecommendationEngine(db) has run on a catalog of one course, and
\* that course and a request are at hand
InitDouble ==
    /\ db \in DoubleCatalogs
    /\ courses_cache = << >>
    /\ skill_vectorizer = NoVectorizer
    /\ course_skill_matrix = NoMatrix
    /\ last_request = DefaultRequest
    /\ last_limit = DefaultLimit
    /\ all_scores = << >>
    /\ response = NoResponse
    /\ previous = NoResponse
    /\ snapshot = NoSnapshot
    /\ similarity_call = NoSimilarityCall
    /\ calls = NoCalls
    /\ \E request \in DoubleRequests :
           rule_call = [course |-> db[1], request |-> request,
                        returned |-> FALSE, raised |-> "", score_data |-> << >>]

\* self._calculate_course_score(course, request, user_query, 0) in double
\* arithmetic
CalculateCourseScoreDoubleCall ==
    /\ ~rule_call.returned
    /\ \E score_data \in {CalculateCourseScoreDouble(skill_vectorizer, course_skill_matrix,
                                                     rule_call.course, rule_call.request, 1)} :
           rule_call' = [rule_call EXCEPT !.returned = TRUE, !.score_data = score_data]
    /\ UNCHANGED <<db, courses_cache, skill_vectorizer, course_skill_matrix,
                   last_request, last_limit, all_scores, response, previous, snapshot,
                   similarity_call, calls>>

NextDouble ==
    \/ Initialize
    \/ CalculateCourseScoreDoubleCall

SpecDouble == InitDouble /\ [][NextDouble]_vars

\* the content score of every call is one that FloatOfTenths gives exactly
ContentScoreExact ==
    rule_call.returned => rule_call.score_data.content_score \in {0, 10}

\* C29: for every query whose four weights sum to at most 1 and every program
\* that violates the language rule without a modality mismatch (filter
\* multiplier 0.1), the total score is at most 0.1, so the program does not
\* pass the threshold test and is never returned.
C29_LanguageViolationNotReturned ==
    ( /\ rule_call.returned
      /\ WeightSum(rule_call.request) <= 100
      /\ LanguageViolated(rule_call.course, rule_call.request)
      /\ rule_call.score_data.filter_score = 1 ) =>
        ~AboveThresholdDouble(rule_call.score_data)

====
